---- MODULE Spec2Model ----
(***************************************************************************)
(* Model of the RAST corridor planning repository.                         *)
(*                                                                         *)
(* Spec        the supervisor node: FiniteStateMachine (plan_manager.cpp)  *)
(*             driving BaselinePlanner (baseline.cpp).                     *)
(* SpecReach   the supervisor started in any non-terminal state, with a    *)
(*             helpful environment.                                        *)
(* SpecRecheck the two deconfliction checks at the end of plan() next to   *)
(*             the peer ingress.                                           *)
(* SpecPlanner the corridor planning node: planner::Planner                *)
(*             (multi_planning.cpp), its ingress callbacks and its timer.  *)
(* SpecLatch   PoseCallback's latch section next to a reader.              *)
(* SpecOpt     Planner::OptimizationInCorridors.                           *)
(* SpecCycle   the planning cycle of TrajTimerCallback on any velocity and *)
(*             any search result.                                          *)
(* SpecMap     the risk map: FakeParticleRiskVoxel::updateMap              *)
(*             (fake_particle_risk_voxel.cpp) next to the callbacks that   *)
(*             set the map center and the ground-truth obstacles.          *)
(* SpecQuery   the occupancy queries getClearOcccupancy on the map of an   *)
(*             update.                                                     *)
(* SpecVoxel   the conversions between positions and voxel indices of the  *)
(*             risk map (risk_voxel.h), in single precision.               *)
(* SpecIndex   Planner::getPointSpatialIndexInMap.                         *)
(*                                                                         *)
(* Every specification moves its own group of variables and leaves the     *)
(* others as they are after construction.                                  *)
(*                                                                         *)
(* Units: lengths are in metres, times are multiples of 0.1 s (the period  *)
(* of the supervisor's timer).  The clock is kept as the time since the    *)
(* last plan, which is all the supervisor reads of it; the time stamps of  *)
(* trajectories and messages are left out.  In the risk map, positions are *)
(* multiples of half a voxel, risk is in tenths and time in multiples of   *)
(* time_resolution_ / TimeRes.                                             *)
(***************************************************************************)
EXTENDS Integers, Sequences, FiniteSets, TLC

(***************************************************************************)
(* Bounds of the model.                                                    *)
(***************************************************************************)
\* largest x coordinate of a pose, goal or way point
MaxCoord == 1
\* number of trajectories the supervisor publishes before the model stops planning
MaxTrajIdx == 2
\* number of peer trajectories that arrive in SpecRecheck
MaxPeerMsgs == 3
\* number of candidates published in SpecRecheck
MaxCandidates == 2
\* number of calls of OptimizationInCorridors in SpecOpt
MaxOptCalls == 2
\* number of poses delivered in SpecLatch
MaxPoses == 3
\* number of distinct risk tensors the map source sends
MaxRisk == 2
\* largest speed component a velocity message carries
MaxSpeed == 2
\* _astar_planner.v_max_xy and v_max_z (from the configuration max_vel)
VMax == 1
\* number of velocity samples delivered in SpecPlanner
MaxVelSamples == 3
\* MAP_LENGTH_VOXEL_NUM, MAP_WIDTH_VOXEL_NUM, MAP_HEIGHT_VOXEL_NUM: voxels of
\* the risk map along x, y and z
MapLengthVoxelNum == 6
MapWidthVoxelNum == 2
MapHeightVoxelNum == 2
\* PREDICTION_TIMES: time slices of the risk map
PredictionTimes == 3
\* clearance_, in 0.05 m
Clearance == 2
\* risk_threshold_, in tenths
RiskThreshold == 5
\* time_resolution_, in half slices
TimeRes == 2
\* positions the conversions are asked about reach MaxSample / 32 m from the
\* map center
MaxSample == 6
\* largest number of nodes a search result has
MaxPathLen == 11
\* _config.max_differentiated_current_a, in 0.1 m/s^2
MaxDiffA == 3

(***************************************************************************)
(* Program constants.                                                      *)
(***************************************************************************)
\* fsm/goal_tolerance, default 1.0 m
GoalTolerance == 1
\* fsm/replan_duration, default 0.1 s
ReplanDuration == 1
\* height given to a goal taken from a trigger, 1 m
TriggerGoalZ == 1
\* int I = 10, the cap of the re-optimization loop
IMax == 10
\* astar_rst.size() <= 1: a path of one node builds no corridor
PathMin == 1
\* astar_rst.size() >= 10
PathCap == 10
\* the dead zone of the differentiated acceleration, 0.2 m/s^2, in 0.1 m/s^2
DeadZone == 2
\* resolution_ = 0.1F, in 0.05 m: positions of the risk map are multiples of
\* half a voxel
Res == 2
\* the risk 1.0F of an occupied voxel, in tenths
One == 10
\* resolution_ = 0.1F as a float, in units of 2^-27
Resolution32 == 13421773
\* binary digits of the mantissa of a float
MantissaBits == 24

(***************************************************************************)
(* State of the supervisor node.                                           *)
(***************************************************************************)
VARIABLES
  status,              \* FiniteStateMachine::_status
  is_goal_received,    \* _is_goal_received
  is_exec_triggered,   \* _is_exec_triggered
  is_odom_received,    \* _is_odom_received
  is_map_updated,      \* _is_map_updated
  traj_idx,            \* _traj_idx
  waypoints,           \* _waypoints, front first
  goal,                \* _goal
  since_plan,          \* ros::Time::now() - _prev_plan_time, up to ReplanDuration
  traj_pub,            \* topic "trajectory" (queue size 1): the latest message
  broadcast_traj_pub,  \* topic "/broadcast_traj" (queue size 1): the latest message
  odom_pos_,           \* BaselinePlanner::odom_pos_
  odom_vel_,           \* BaselinePlanner::odom_vel_, metres per pose period
  prev_p_,             \* BaselinePlanner::prev_px_, prev_py_, prev_pz_
  traj_,               \* BaselinePlanner::traj_
  traj_blocked,        \* environment: an obstacle or a peer crosses the committed trajectory
  last_tick,           \* history: what the latest FSMCallback did
  \* one plan() call next to the peer ingress (SpecRecheck)
  plan_pc,             \* position of the supervisor's tick inside plan()
  peer_queue,          \* peer trajectories in the subscriber queue, not dispatched
  peer_registered,     \* peer updates registered with the deconfliction
  chk_epoch,           \* peer_registered as isSafeAfterOpt saw it
  cand_between,        \* history: a peer update arrived between the two checks
  cand_published,      \* history: candidates published
  \* the corridor planning node, planner::Planner (SpecPlanner)
  future_risk,         \* _future_risk, the risk tensor (known by the id of its message)
  map_center,          \* _map_center.pose.position
  p_odom_pos,          \* Planner::_odom_pos
  p_odom_vel,          \* Planner::_odom_vel
  prev_v,              \* _prev_vx, _prev_vy, _prev_vz
  p_odom_acc,          \* Planner::_odom_acc, in 0.1 m/s^2
  prev_t,              \* _prev_t, as the number of the sample it was taken at
  is_future_risk_updated,  \* _is_future_risk_updated
  is_future_risk_locked,   \* _is_future_risk_locked
  p_is_odom_received,  \* Planner::_is_odom_received
  risk_received,       \* history: a risk message was received
  cycle,               \* history: what the latest TrajTimerCallback did
  \* the odometry latch: a pose callback next to a reader (SpecLatch)
  is_state_locked,     \* is_state_locked_ / _is_state_locked
  pose_pc,             \* position of the running PoseCallback
  latch_pos,           \* odom_pos_, known by the number of the pose it came from
  latch_att,           \* odom_att_, known by the number of the pose it came from
  last_read,           \* history: what the latest read of the odometry state saw
  \* one call of Planner::OptimizationInCorridors after another (SpecOpt)
  opt_pc,              \* position inside OptimizationInCorridors
  opt_i,               \* the local i
  last_sat,            \* isCorridorSatisfied on the current _traj: "none" before the check
  reopt_calls,         \* history: calls of reOptimize in this call
  opt_ret,             \* the value the call returned, "none" while it runs
  opt_calls,           \* history: calls of OptimizationInCorridors so far
  opt_traj,            \* _traj, known by the call and the solve it was taken from
  last_outcome,        \* history: what the latest optimize()/reOptimize() answered
  \* the risk map, FakeParticleRiskVoxel (SpecMap, SpecQuery)
  pose_,               \* pose_, the map center
  gt_cylinders_,       \* gt_cylinders_, the ground-truth obstacles
  risk_maps_,          \* risk_maps_[VOXEL_NUM][PREDICTION_TIMES]
  last_update,         \* history: the inputs of the latest updateMap
  last_query,          \* history: the latest occupancy query and its answer
  \* conversions between positions and voxel indices (SpecVoxel, SpecIndex)
  last_conv            \* history: the latest conversion and its result

fsm_vars == <<status, is_goal_received, is_exec_triggered, is_odom_received,
              is_map_updated, traj_idx, waypoints, goal, since_plan, traj_pub,
              broadcast_traj_pub, odom_pos_, odom_vel_, prev_p_, traj_,
              traj_blocked, last_tick>>

recheck_vars == <<plan_pc, peer_queue, peer_registered, chk_epoch,
                  cand_between, cand_published>>

planner_vars == <<future_risk, map_center, p_odom_pos, p_odom_vel, prev_v,
                  p_odom_acc, prev_t,
                  is_future_risk_updated, is_future_risk_locked,
                  p_is_odom_received, risk_received, cycle>>

latch_vars == <<is_state_locked, pose_pc, latch_pos, latch_att, last_read>>

opt_vars == <<opt_pc, opt_i, last_sat, reopt_calls, opt_ret, opt_calls,
              opt_traj, last_outcome>>

map_vars == <<pose_, gt_cylinders_, risk_maps_, last_update, last_query>>

conv_vars == <<last_conv>>

vars == <<fsm_vars, recheck_vars, planner_vars, latch_vars, opt_vars, map_vars,
          conv_vars>>

\* what the supervisor's callbacks leave alone
not_fsm_vars == <<recheck_vars, planner_vars, latch_vars, opt_vars, map_vars,
  conv_vars>>

\* what the steps of SpecRecheck leave alone
not_recheck_vars == <<fsm_vars, planner_vars, latch_vars, opt_vars, map_vars,
  conv_vars>>

\* what the callbacks of the corridor planning node leave alone
not_planner_vars == <<fsm_vars, recheck_vars, latch_vars, opt_vars, map_vars,
  conv_vars>>

\* what the steps of SpecLatch leave alone
not_latch_vars == <<fsm_vars, recheck_vars, planner_vars, opt_vars, map_vars,
  conv_vars>>

\* what the steps of SpecOpt leave alone
not_opt_vars == <<fsm_vars, recheck_vars, planner_vars, latch_vars, map_vars,
  conv_vars>>

\* what the steps of SpecMap and SpecQuery leave alone
not_map_vars == <<fsm_vars, recheck_vars, planner_vars, latch_vars, opt_vars,
                  conv_vars>>

\* what the steps of SpecVoxel and SpecIndex leave alone
not_conv_vars == <<fsm_vars, recheck_vars, planner_vars, latch_vars, opt_vars,
                   map_vars>>

(***************************************************************************)
(* Values.                                                                 *)
(***************************************************************************)
FSM_STATUS == {"INIT", "WAIT_TARGET", "NEW_PLAN", "REPLAN", "EXEC_TRAJ",
               "EMERGENCY_REPLAN", "GOAL_REACHED", "EXIT"}

\* results of RiskHybridAstar::search; RET_0 is the enumerator of value 0
ASTAR_RET == {"RET_0", "REACH_END", "NO_PATH", "TIMEOUT"}

Coords == 0 .. MaxCoord

\* positions of the vehicle and of goals
Points == {<<x, 0, TriggerGoalZ>> : x \in Coords}

\* positions a trigger message carries
TriggerPoses == {<<x, 0, z>> : x \in Coords, z \in {0, TriggerGoalZ}}

\* a trajectory is known by its first control point, the position the
\* optimizer was given as initial state; NoTraj is the empty trajectory
NoTraj == [p0 |-> <<0, 0, 0>>, valid |-> FALSE]

\* a topic nothing was published on
NoMsg == [traj_id |-> 0, cpts |-> <<0, 0, 0>>]

NormSq(p, q) ==
  (p[1] - q[1]) * (p[1] - q[1]) + (p[2] - q[2]) * (p[2] - q[2])
    + (p[3] - q[3]) * (p[3] - q[3])

NoTick == [from |-> "none", lost |-> FALSE, plan |-> "skipped", rst |-> "skipped",
           opt |-> "skipped", safe_opt |-> "skipped", safe_chk |-> "skipped",
           finished |-> FALSE, lapsed |-> FALSE, blocked |-> FALSE,
           pubs |-> 0, idx0 |-> 0, wp0 |-> 0]

(***************************************************************************)
(* Helpers of the supervisor declared in plan_manager.h.                   *)
(***************************************************************************)
\* no pose or no map yet
isInputLost == ~is_odom_received \/ ~is_map_updated

\* the time since the last plan is at least d
checkTimeLapse(d) == since_plan >= d

\* p is within the goal tolerance of the goal
isGoalReached(p) == NormSq(p, goal) < GoalTolerance * GoalTolerance

\* FiniteStateMachine::isTrajectorySafe
isTrajectorySafe == TRUE

YesNo(b) == IF b THEN "yes" ELSE "no"

(***************************************************************************)
(* BaselinePlanner::plan.  The results of the search, of the optimizer and *)
(* of the two deconfliction checks are inputs.  The value is what the call *)
(* returns, the members it leaves behind, and which stages it ran.         *)
(***************************************************************************)
\* the initial state plan() hands to the optimizer: the odometry state
PlanInitState == [pos |-> odom_pos_, vel |-> odom_vel_]

\* plan() without the re-check after the optimization window
plan_NoRecheck(rst1, rst2, opt_ok, safe_opt, safe_chk) ==
  LET rst  == IF rst1 = "RET_0" THEN rst2 ELSE rst1
      cand == [p0 |-> PlanInitState.pos, valid |-> TRUE]
      base == [ret |-> FALSE, traj |-> traj_, rst |-> rst, opt |-> "skipped",
               safe_opt |-> "skipped", safe_chk |-> "skipped"]
  IN  IF rst = "NO_PATH" THEN base
      ELSE IF ~opt_ok THEN [base EXCEPT !.opt = "no"]
      ELSE IF ~safe_opt
        THEN [base EXCEPT !.opt = "yes", !.traj = cand, !.safe_opt = "no"]
      ELSE [base EXCEPT !.ret = TRUE, !.opt = "yes", !.traj = cand,
                        !.safe_opt = "yes", !.safe_chk = YesNo(safe_chk)]

plan(rst1, rst2, opt_ok, safe_opt, safe_chk) ==
  LET rst  == IF rst1 = "RET_0" THEN rst2 ELSE rst1
      cand == [p0 |-> PlanInitState.pos, valid |-> TRUE]
      base == [ret |-> FALSE, traj |-> traj_, rst |-> rst, opt |-> "skipped",
               safe_opt |-> "skipped", safe_chk |-> "skipped"]
  IN  IF rst = "NO_PATH" THEN base
      ELSE IF ~opt_ok THEN [base EXCEPT !.opt = "no"]
      ELSE IF ~safe_opt
        THEN [base EXCEPT !.opt = "yes", !.traj = cand, !.safe_opt = "no"]
      ELSE IF ~safe_chk
        THEN [base EXCEPT !.opt = "yes", !.traj = cand, !.safe_opt = "yes",
                          !.safe_chk = "no"]
      ELSE [base EXCEPT !.ret = TRUE, !.opt = "yes", !.traj = cand,
                        !.safe_opt = "yes", !.safe_chk = "yes"]

(***************************************************************************)
(* FiniteStateMachine::publishTrajectory: the message built from the       *)
(* planner's trajectory, with the incremented trajectory index.            *)
(***************************************************************************)
\* the message stamped with the index before the increment
TrajMsg_StaleId(idx, traj) == [traj_id |-> idx - 1, cpts |-> traj.p0]

TrajMsg(idx, traj) == [traj_id |-> idx, cpts |-> traj.p0]

\* a pop that removes nothing
WaypointsPop_Keeps(q) == {q}

\* std::queue::pop; on an empty queue the behaviour is undefined
WaypointsPop(q) ==
  IF q = <<>> THEN {<<>>} \cup {<<g>> : g \in Points} ELSE {Tail(q)}

(***************************************************************************)
(* The branches of FSMCallback.                                            *)
(***************************************************************************)
\* WAIT_TARGET left without a goal
WaitTargetNext_NoGoalTest ==
  IF ~isInputLost THEN "REPLAN" ELSE "WAIT_TARGET"

\* a state left after a lost input without going to WAIT_TARGET
InputLostNext_Stays == status

\* cases NEW_PLAN, EXEC_TRAJ, REPLAN: isInputLost() holds
InputLostNext == "WAIT_TARGET"

\* case WAIT_TARGET
WaitTargetNext ==
  IF ~isInputLost /\ is_goal_received THEN "REPLAN" ELSE "WAIT_TARGET"

\* case NEW_PLAN: localReplan is commented out, is_success stays false
NewPlanSuccess == FALSE

NewPlanNext ==
  IF isInputLost THEN InputLostNext
  ELSE IF is_exec_triggered THEN "EXEC_TRAJ" ELSE "NEW_PLAN"

\* EXEC_TRAJ with the replan timer ignored
ExecTrajNext_NoTimer(is_safe, lapsed, reached) ==
  IF reached THEN "GOAL_REACHED" ELSE "EXEC_TRAJ"

\* EXEC_TRAJ with the goal test as an else branch of the timer test
ExecTrajNext_TimerWins(is_safe, lapsed, reached) ==
  IF lapsed THEN "REPLAN"
  ELSE IF reached THEN "GOAL_REACHED" ELSE "EXEC_TRAJ"

\* case EXEC_TRAJ: the replan timer first, the goal test after it
ExecTrajNext(is_safe, lapsed, reached) ==
  IF reached THEN "GOAL_REACHED"
  ELSE IF lapsed THEN "REPLAN" ELSE "EXEC_TRAJ"

\* REPLAN publishing whatever plan() returned
ReplanPublishes_AnyPlan(is_success, is_finished) == ~is_finished

\* case REPLAN: the condition of the publishing branch
ReplanPublishes(is_success, is_finished) == is_success /\ ~is_finished

\* REPLAN running the GOAL_REACHED case in the same tick
ReplanNext_GoalInOneTick(is_success, is_finished) ==
  IF is_success /\ ~is_finished THEN "EXEC_TRAJ"
  ELSE IF is_finished THEN "WAIT_TARGET" ELSE "REPLAN"

\* REPLAN with the goal test dropped from the first branch
ReplanNext_SuccessOnly(is_success, is_finished) ==
  IF is_success THEN "EXEC_TRAJ"
  ELSE IF is_finished THEN "GOAL_REACHED" ELSE "REPLAN"

\* REPLAN going on to EXEC_TRAJ only when the goal is reached
ReplanNext_Negated(is_success, is_finished) ==
  IF is_success /\ is_finished THEN "EXEC_TRAJ"
  ELSE IF is_finished THEN "GOAL_REACHED" ELSE "REPLAN"

\* case REPLAN: the state the tick ends in
ReplanNext(is_success, is_finished) ==
  IF is_success /\ ~is_finished THEN "EXEC_TRAJ"
  ELSE IF is_finished THEN "GOAL_REACHED" ELSE "REPLAN"

\* the plan() call of SpecRecheck is not running
RecheckIdle ==
  /\ plan_pc = "idle"
  /\ peer_queue = 0
  /\ peer_registered = 0
  /\ chk_epoch = 0
  /\ cand_between = FALSE
  /\ cand_published = 0

\* a tick of the corridor planning node that returned before planning
NoCycle == [had_risk |-> FALSE, ran |-> FALSE, risk |-> 0, c_start |-> <<0, 0, 0>>,
            p_start |-> <<0, 0, 0>>, v_start |-> <<0, 0, 0>>, path_len |-> 0,
            corridors |-> FALSE, corridor_pub |-> FALSE, optimized |-> FALSE]

\* what _odom_acc can hold before it is written: the constructor does not
\* set it
Accels == {<<0, 0, 0>>, <<MaxDiffA, 0, 0>>}

\* Planner::Planner: the members after construction; the risk tensor, the
\* map center, the position and the velocity are taken as zero, the
\* acceleration, which no callback ever writes, as anything
PlannerInit ==
  /\ future_risk = 0
  /\ map_center = <<0, 0, 0>>
  /\ p_odom_pos = <<0, 0, 0>>
  /\ p_odom_vel = <<0, 0, 0>>
  /\ prev_v = <<0, 0, 0>>
  /\ p_odom_acc \in Accels
  /\ prev_t = 0
  /\ is_future_risk_updated = FALSE
  /\ is_future_risk_locked = FALSE
  /\ p_is_odom_received = FALSE
  /\ risk_received = FALSE
  /\ cycle = NoCycle

NoRead == [pos |-> 0, att |-> 0, locked |-> FALSE, done |-> FALSE]

\* BaselinePlanner::init, Planner::Planner: latch clear, no pose yet
LatchInit ==
  /\ is_state_locked = FALSE
  /\ pose_pc = "idle"
  /\ latch_pos = 0
  /\ latch_att = 0
  /\ last_read = NoRead

\* _traj before the first getTrajectory(&_traj)
NoOptTraj == [call |-> 0, solve |-> 0]

\* OptimizationInCorridors is entered for the first time
OptInit ==
  /\ opt_traj = NoOptTraj
  /\ last_outcome = "none"
  /\ opt_pc = "optimize"
  /\ opt_i = 0
  /\ last_sat = "none"
  /\ reopt_calls = 0
  /\ opt_ret = "none"
  /\ opt_calls = 1

\* indices of risk_maps_
VOXEL_NUM == MapLengthVoxelNum * MapWidthVoxelNum * MapHeightVoxelNum

Voxels == 0 .. VOXEL_NUM - 1

Slices == 0 .. PredictionTimes - 1

\* a tensor without risk
ZeroMap == [i \in Voxels |-> [j \in Slices |-> 0]]

\* a tensor with risk left in its last entry
StaleMap == [ZeroMap EXCEPT ![VOXEL_NUM - 1][PredictionTimes - 1] = One]

NoUpdate == [done |-> FALSE, cloud |-> {}, pose |-> <<0, 0, 0>>, gt |-> <<>>,
             peers |-> [j \in Slices |-> {}], stale |-> FALSE]

NoQuery == [kind |-> "none", pos |-> <<0, 0, 0>>, t |-> 0, ret |-> 0]

\* FakeParticleRiskVoxel::init: pose_ is zero; risk_maps_ is not set before
\* the first updateMap and holds what the memory held
MapInit ==
  /\ pose_ = <<0, 0, 0>>
  /\ gt_cylinders_ = <<>>
  /\ risk_maps_ \in {ZeroMap, StaleMap}
  /\ last_update = NoUpdate
  /\ last_query = NoQuery

\* the corridor planning node and the risk map while a specification does
\* not run them: no step reads what their unset members hold
PlannerIdle == PlannerInit /\ p_odom_acc = <<0, 0, 0>>

MapIdle == MapInit /\ risk_maps_ = ZeroMap

NoConv == [kind |-> "none"]

\* no conversion was asked for
ConvIdle == last_conv = NoConv

\* the parts of the model outside the supervisor's callbacks are at rest
NotFsmIdle ==
  RecheckIdle /\ PlannerIdle /\ LatchInit /\ OptInit /\ MapIdle /\ ConvIdle

\* the supervisor after construction, while a specification does not run it
FsmIdle ==
  /\ status = "INIT"
  /\ is_goal_received = FALSE
  /\ is_exec_triggered = FALSE
  /\ is_odom_received = FALSE
  /\ is_map_updated = FALSE
  /\ traj_idx = 0
  /\ goal = <<0, 0, 0>>
  /\ waypoints = <<goal>>
  /\ since_plan = ReplanDuration
  /\ traj_pub = NoMsg
  /\ broadcast_traj_pub = NoMsg
  /\ odom_pos_ = <<0, 0, 0>>
  /\ odom_vel_ = <<0, 0, 0>>
  /\ prev_p_ = <<0, 0, 0>>
  /\ traj_ = NoTraj
  /\ traj_blocked = FALSE
  /\ last_tick = NoTick

(***************************************************************************)
(* FiniteStateMachine::FSMCallback, one timer tick.  Tick gives the values *)
(* the members have when the callback returns; in holds the inputs of the  *)
(* tick: the results plan() gets from the search, the optimizer and the    *)
(* deconfliction, and the outcome of the pop.                              *)
(***************************************************************************)
Tick(in) ==
  LET lost     == isInputLost
      p        == plan(in.plan.rst1, in.plan.rst2, in.plan.opt_ok,
                       in.plan.safe_opt, in.plan.safe_chk)
      finished == isGoalReached(odom_pos_)
      lapsed   == checkTimeLapse(ReplanDuration)
      same     == [status |-> status, goal_received |-> is_goal_received,
                   exec_triggered |-> is_exec_triggered, idx |-> traj_idx,
                   waypoints |-> waypoints, since_plan |-> since_plan,
                   msgs |-> <<>>, traj |-> traj_,
                   tick |-> [NoTick EXCEPT !.from = status, !.idx0 = traj_idx,
                                           !.wp0 = Len(waypoints),
                                           !.blocked = traj_blocked]]
  IN  CASE status = "INIT" ->
             [same EXCEPT !.status = "WAIT_TARGET"]
        [] status = "WAIT_TARGET" ->
             [same EXCEPT !.status = WaitTargetNext, !.tick.lost = lost]
        [] status = "NEW_PLAN" ->
             [same EXCEPT !.status = NewPlanNext, !.tick.lost = lost,
                          !.idx = IF ~lost /\ NewPlanSuccess
                                    THEN traj_idx + 1 ELSE traj_idx,
                          !.msgs = IF ~lost /\ NewPlanSuccess
                                     THEN <<TrajMsg(traj_idx + 1, traj_)>>
                                     ELSE <<>>,
                          !.tick.pubs = IF ~lost /\ NewPlanSuccess THEN 1 ELSE 0]
        [] status = "EXEC_TRAJ" ->
             IF lost
               THEN [same EXCEPT !.status = InputLostNext, !.tick.lost = TRUE]
               ELSE [same EXCEPT !.status = ExecTrajNext(isTrajectorySafe, lapsed,
                                                         finished),
                                 !.tick.lapsed = lapsed,
                                 !.tick.finished = finished]
        [] status = "REPLAN" ->
             IF lost
               THEN [same EXCEPT !.status = InputLostNext, !.tick.lost = TRUE]
               ELSE LET pub == ReplanPublishes(p.ret, finished)
                    IN  [same EXCEPT
                           !.status = ReplanNext(p.ret, finished),
                           !.traj = p.traj,
                           !.since_plan = IF pub THEN 0 ELSE since_plan,
                           !.idx = IF pub THEN traj_idx + 1 ELSE traj_idx,
                           !.msgs = IF pub
                                      THEN <<TrajMsg(traj_idx + 1, p.traj)>>
                                      ELSE <<>>,
                           !.tick.plan = YesNo(p.ret),
                           !.tick.rst = p.rst,
                           !.tick.opt = p.opt,
                           !.tick.safe_opt = p.safe_opt,
                           !.tick.safe_chk = p.safe_chk,
                           !.tick.finished = finished,
                           !.tick.pubs = IF pub THEN 1 ELSE 0]
        [] status = "GOAL_REACHED" ->
             [same EXCEPT !.status = "WAIT_TARGET", !.goal_received = FALSE,
                          !.exec_triggered = FALSE, !.waypoints = in.popped]
        [] OTHER -> same

\* what a topic holds after the messages msgs were published on it
Latest(topic, msgs) == IF msgs = <<>> THEN topic ELSE msgs[Len(msgs)]

\* the inputs of a tick; an input the tick does not read has one fixed value
PlanInputs ==
  {in \in [rst1 : ASTAR_RET, rst2 : ASTAR_RET, opt_ok : BOOLEAN,
            safe_opt : BOOLEAN, safe_chk : BOOLEAN] :
     /\ in.rst1 # "RET_0" => in.rst2 = in.rst1
     /\ in.rst2 = "NO_PATH" => ~in.opt_ok
     /\ ~in.opt_ok => ~in.safe_opt
     /\ ~in.safe_opt => ~in.safe_chk}

NoPlanInput ==
  [rst1 |-> "NO_PATH", rst2 |-> "NO_PATH", opt_ok |-> FALSE, safe_opt |-> FALSE,
   safe_chk |-> FALSE]

TickInputs ==
  [plan : IF status = "REPLAN" /\ ~isInputLost THEN PlanInputs ELSE {NoPlanInput},
   popped : IF status = "GOAL_REACHED" THEN WaypointsPop(waypoints)
                                       ELSE {waypoints}]

FSMCallback ==
  /\ status = "REPLAN" => traj_idx < MaxTrajIdx
  /\ \E in \in TickInputs :
       LET r == Tick(in)
       IN  /\ status' = r.status
           /\ is_goal_received' = r.goal_received
           /\ is_exec_triggered' = r.exec_triggered
           /\ traj_idx' = r.idx
           /\ waypoints' = r.waypoints
           /\ since_plan' = r.since_plan
           /\ traj_pub' = Latest(traj_pub, r.msgs)
           /\ broadcast_traj_pub' = Latest(broadcast_traj_pub, r.msgs)
           /\ traj_' = r.traj
           /\ traj_blocked' = (traj_blocked /\ r.msgs = <<>>)
           /\ last_tick' = r.tick
  /\ UNCHANGED <<is_odom_received, is_map_updated, goal, odom_pos_, odom_vel_,
                 prev_p_>>
  /\ UNCHANGED not_fsm_vars

(***************************************************************************)
(* FiniteStateMachine::TriggerCallback.                                    *)
(***************************************************************************)
\* the goal always taken from the trigger's pose
TriggerGoal_AlwaysPose(pose) == <<pose[1], pose[2], TriggerGoalZ>>

TriggerGoal(pose) ==
  IF waypoints = <<>> THEN <<pose[1], pose[2], TriggerGoalZ>> ELSE Head(waypoints)

TriggerCallback ==
  \E pose \in TriggerPoses :
    IF is_exec_triggered
      THEN UNCHANGED vars
      ELSE /\ is_exec_triggered' = TRUE
           /\ goal' = IF ~is_goal_received THEN TriggerGoal(pose) ELSE goal
           /\ waypoints' = IF ~is_goal_received /\ waypoints = <<>>
                             THEN <<TriggerGoal(pose)>> ELSE waypoints
           /\ is_goal_received' = TRUE
           /\ UNCHANGED <<status, is_odom_received, is_map_updated, traj_idx,
                          since_plan, traj_pub, broadcast_traj_pub, odom_pos_,
                          odom_vel_, prev_p_, traj_, traj_blocked, last_tick>>
           /\ UNCHANGED not_fsm_vars

(***************************************************************************)
(* BaselinePlanner::PoseCallback: the pose becomes the planner's position, *)
(* odometry counts as received, and the velocity is the first difference   *)
(* of the position (is_velocity_received_ is never set).  Poses are        *)
(* stamped one pose period apart, so dt is one period.                     *)
(***************************************************************************)
Diff(p, q) == <<p[1] - q[1], p[2] - q[2], p[3] - q[3]>>

PoseCallback ==
  \E pos \in Points :
    /\ odom_pos_' = pos
    /\ odom_vel_' = Diff(pos, prev_p_)
    /\ prev_p_' = pos
    /\ is_odom_received' = TRUE
    /\ UNCHANGED <<status, is_goal_received, is_exec_triggered, is_map_updated,
                   traj_idx, waypoints, goal, since_plan, traj_pub,
                   broadcast_traj_pub, traj_, traj_blocked, last_tick>>
    /\ UNCHANGED not_fsm_vars

(***************************************************************************)
(* Environment of the supervisor.                                          *)
(***************************************************************************)
\* the map source delivers a risk map
MapUpdated ==
  /\ ~is_map_updated
  /\ is_map_updated' = TRUE
  /\ UNCHANGED <<status, is_goal_received, is_exec_triggered, is_odom_received,
                 traj_idx, waypoints, goal, since_plan, traj_pub,
                 broadcast_traj_pub, odom_pos_, odom_vel_, prev_p_, traj_,
                 traj_blocked, last_tick>>
  /\ UNCHANGED not_fsm_vars

\* an input (pose or map) is lost
InputLost ==
  \E which \in {"odom", "map"} :
    /\ ~isInputLost
    /\ is_odom_received' = (is_odom_received /\ which # "odom")
    /\ is_map_updated' = (is_map_updated /\ which # "map")
    /\ UNCHANGED <<status, is_goal_received, is_exec_triggered, traj_idx,
                   waypoints, goal, since_plan, traj_pub, broadcast_traj_pub,
                   odom_pos_, odom_vel_, prev_p_, traj_, traj_blocked,
                   last_tick>>
    /\ UNCHANGED not_fsm_vars

\* a newly observed obstacle, or a peer's later reservation, crosses the
\* trajectory the supervisor committed last
TrajectoryBlocked ==
  /\ traj_pub # NoMsg
  /\ ~traj_blocked
  /\ traj_blocked' = TRUE
  /\ UNCHANGED <<status, is_goal_received, is_exec_triggered, is_odom_received,
                 is_map_updated, traj_idx, waypoints, goal, since_plan,
                 traj_pub, broadcast_traj_pub, odom_pos_, odom_vel_, prev_p_,
                 traj_, last_tick>>
  /\ UNCHANGED not_fsm_vars

\* 0.1 s passes
AdvanceTime ==
  /\ since_plan < ReplanDuration
  /\ since_plan' = since_plan + 1
  /\ UNCHANGED <<status, is_goal_received, is_exec_triggered, is_odom_received,
                 is_map_updated, traj_idx, waypoints, goal, traj_pub,
                 broadcast_traj_pub, odom_pos_, odom_vel_, prev_p_, traj_,
                 traj_blocked, last_tick>>
  /\ UNCHANGED not_fsm_vars

(***************************************************************************)
(* FiniteStateMachine::run and BaselinePlanner::init.  The goal is a       *)
(* parameter; odom_pos_ is not set before the first pose; _prev_plan_time  *)
(* is the zero time, so the replan duration has long elapsed.              *)
(***************************************************************************)
Init ==
  /\ status = "INIT"
  /\ is_goal_received = FALSE
  /\ is_exec_triggered = FALSE
  /\ is_odom_received = FALSE
  /\ is_map_updated = FALSE
  /\ traj_idx = 0
  /\ goal \in Points
  /\ waypoints = <<goal>>
  /\ since_plan = ReplanDuration
  /\ traj_pub = NoMsg
  /\ broadcast_traj_pub = NoMsg
  /\ odom_pos_ \in Points
  /\ odom_vel_ = <<0, 0, 0>>
  /\ prev_p_ = <<0, 0, 0>>
  /\ traj_ = NoTraj
  /\ traj_blocked = FALSE
  /\ last_tick = NoTick
  /\ NotFsmIdle

Next ==
  \/ FSMCallback
  \/ TriggerCallback
  \/ PoseCallback
  \/ MapUpdated
  \/ InputLost
  \/ TrajectoryBlocked
  \/ AdvanceTime

Spec == Init /\ [][Next]_vars

(***************************************************************************)
(* Properties of the supervisor, checked under Spec.                       *)
(***************************************************************************)
\* the latest tick ran the REPLAN branch with odometry and map present
ReplanTick == last_tick.from = "REPLAN" /\ ~last_tick.lost

\* the latest tick ran the EXEC_TRAJ branch with odometry and map present
ExecTick == last_tick.from = "EXEC_TRAJ" /\ ~last_tick.lost

\* the latest tick published n trajectories
Published(n) ==
  /\ last_tick.pubs = n
  /\ traj_idx = last_tick.idx0 + n
  /\ broadcast_traj_pub = traj_pub
  /\ n > 0 => traj_pub.traj_id = traj_idx

\* C1: a tick publishes a trajectory only if, in its plan() call,
\* isSafeAfterOpt returned true and then isSafeAfterChk returned true; when
\* isSafeAfterOpt returns false, plan() returns false and the tick publishes
\* nothing.
C1_PublishOnlyAfterBothChecks ==
  /\ last_tick.pubs = traj_idx - last_tick.idx0
  /\ traj_idx > last_tick.idx0 =>
       /\ last_tick.safe_opt = "yes"
       /\ last_tick.safe_chk = "yes"
       /\ last_tick.plan = "yes"
  /\ last_tick.safe_opt = "no" =>
       /\ last_tick.plan = "no"
       /\ last_tick.safe_chk = "skipped"
       /\ Published(0)

C1_Witness ==
  /\ ReplanTick
  /\ Published(1)
  /\ last_tick.safe_opt = "yes"
  /\ last_tick.safe_chk = "yes"

\* C2: a REPLAN tick with inputs present whose plan() succeeds while the
\* vehicle is not within goal tolerance publishes exactly one trajectory and
\* ends in EXEC_TRAJ.
C2_ReplanSuccess ==
  (ReplanTick /\ last_tick.plan = "yes" /\ ~last_tick.finished) =>
    (status = "EXEC_TRAJ" /\ Published(1))

C2_Witness ==
  /\ ReplanTick
  /\ last_tick.plan = "yes"
  /\ ~last_tick.finished
  /\ status = "EXEC_TRAJ"
  /\ traj_idx = MaxTrajIdx

\* C3: a REPLAN tick with inputs present whose plan() fails while the vehicle
\* is not at the goal stays in REPLAN, publishes nothing and leaves the
\* trajectory counter unchanged; the next tick (inputs still present) calls
\* plan() again.
C3_ReplanFailure ==
  /\ [](ReplanTick /\ last_tick.plan = "no" /\ ~last_tick.finished =>
          status = "REPLAN" /\ Published(0))
  /\ [][FSMCallback /\ status = "REPLAN" /\ ~isInputLost =>
          last_tick'.from = "REPLAN" /\ last_tick'.plan # "skipped"]_vars

C3_Witness ==
  /\ ReplanTick
  /\ last_tick.plan = "no"
  /\ last_tick.rst = "NO_PATH"
  /\ ~last_tick.finished
  /\ status = "REPLAN"

\* C4: a REPLAN tick with inputs present on which the vehicle is within goal
\* tolerance ends in GOAL_REACHED whatever plan() returned, and publishes
\* nothing.
C4_ReplanAtGoal ==
  (ReplanTick /\ last_tick.finished) =>
    (status = "GOAL_REACHED" /\ Published(0))

C4_Witness ==
  /\ ReplanTick
  /\ last_tick.finished
  /\ last_tick.plan = "yes"
  /\ status = "GOAL_REACHED"

\* C5: an EXEC_TRAJ tick with inputs present on which the time since the last
\* plan is at least the replan duration, the vehicle not being at the goal,
\* ends in REPLAN.
C5_ExecReplanTimer ==
  (ExecTick /\ last_tick.lapsed /\ ~last_tick.finished) => status = "REPLAN"

C5_Witness ==
  /\ ExecTick
  /\ last_tick.lapsed
  /\ ~last_tick.finished
  /\ since_plan = ReplanDuration
  /\ status = "REPLAN"

\* C6: an EXEC_TRAJ tick with inputs present on which the vehicle is within
\* goal tolerance ends in GOAL_REACHED, also when the replan timer has
\* elapsed on that tick.
C6_ExecAtGoal ==
  (ExecTick /\ last_tick.finished) => status = "GOAL_REACHED"

C6_Witness ==
  /\ ExecTick
  /\ last_tick.finished
  /\ last_tick.lapsed
  /\ status = "GOAL_REACHED"

\* C7: an EXEC_TRAJ tick on which the committed trajectory is unsafe (an
\* obstacle or a peer crosses it) ends in EMERGENCY_REPLAN.
C7_UnsafeEntersEmergency ==
  (ExecTick /\ last_tick.blocked) => status = "EMERGENCY_REPLAN"

\* the sample of the committed trajectory that was checked when it was
\* committed: its first control point
LastSafePosition == traj_pub.cpts

\* C8: when the committed trajectory is unsafe, the planning cycle that
\* follows starts from the fall-back hover point, that is from the last safe
\* position with zero velocity, and the committed trajectory has been
\* emptied before plan() runs.
C8_EmergencyHoverStart ==
  [][FSMCallback /\ status = "REPLAN" /\ ~isInputLost /\ traj_blocked =>
       /\ PlanInitState.vel = <<0, 0, 0>>
       /\ PlanInitState.pos = LastSafePosition
       /\ traj_ = NoTraj]_vars

\* C9: a GOAL_REACHED tick pops exactly one waypoint, clears the
\* goal-received and execution-triggered flags, publishes nothing and ends in
\* WAIT_TARGET.
C9_GoalReachedTick ==
  [][FSMCallback /\ status = "GOAL_REACHED" =>
       /\ waypoints # <<>>
       /\ waypoints' = Tail(waypoints)
       /\ ~is_goal_received'
       /\ ~is_exec_triggered'
       /\ traj_pub' = traj_pub
       /\ broadcast_traj_pub' = broadcast_traj_pub
       /\ traj_idx' = traj_idx
       /\ last_tick'.pubs = 0
       /\ status' = "WAIT_TARGET"]_vars

C9_Witness ==
  /\ last_tick.from = "GOAL_REACHED"
  /\ last_tick.wp0 = 1
  /\ waypoints = <<>>
  /\ status = "WAIT_TARGET"
  /\ ~is_goal_received
  /\ ~is_exec_triggered

\* C10: the supervisor leaves WAIT_TARGET only on a tick where odometry and
\* map are present and a goal has been received, and then goes to REPLAN;
\* while pose, map or goal is missing it stays in WAIT_TARGET and neither
\* plans nor publishes.
C10_WaitTarget ==
  /\ [][status = "WAIT_TARGET" /\ status' # "WAIT_TARGET" =>
          /\ is_odom_received /\ is_map_updated /\ is_goal_received
          /\ status' = "REPLAN"]_vars
  /\ [][FSMCallback /\ status = "WAIT_TARGET" =>
          IF is_odom_received /\ is_map_updated /\ is_goal_received
            THEN status' = "REPLAN"
            ELSE status' = "WAIT_TARGET"]_vars
  /\ [][status = "WAIT_TARGET" =>
          /\ traj_pub' = traj_pub
          /\ broadcast_traj_pub' = broadcast_traj_pub
          /\ traj_idx' = traj_idx
          /\ traj_' = traj_
          /\ last_tick'.plan = "skipped"
          /\ last_tick'.pubs = 0]_vars

C10_Witness ==
  /\ last_tick.from = "WAIT_TARGET"
  /\ status = "REPLAN"
  /\ is_odom_received /\ is_map_updated /\ is_goal_received

NonTerminal == {"INIT", "WAIT_TARGET", "NEW_PLAN", "REPLAN", "EXEC_TRAJ",
                "EMERGENCY_REPLAN"}

InitAnyState ==
  /\ status \in NonTerminal
  /\ is_goal_received \in BOOLEAN
  /\ is_exec_triggered \in {b \in BOOLEAN : b => is_goal_received}
  /\ is_odom_received \in BOOLEAN
  /\ is_map_updated \in BOOLEAN
  /\ traj_idx = 0
  /\ goal \in Points
  /\ waypoints = <<goal>>
  /\ since_plan \in 0 .. ReplanDuration
  /\ traj_pub = NoMsg
  /\ broadcast_traj_pub = NoMsg
  /\ odom_pos_ \in Points
  /\ odom_vel_ = <<0, 0, 0>>
  /\ prev_p_ = <<0, 0, 0>>
  /\ traj_ = NoTraj
  /\ traj_blocked = FALSE
  /\ last_tick = NoTick
  /\ NotFsmIdle

\* a pose that reports the vehicle at the goal
PoseAtGoal == PoseCallback /\ odom_pos_' = goal

NextReach ==
  \/ FSMCallback
  \/ TriggerCallback
  \/ PoseAtGoal
  \/ MapUpdated

SpecReach ==
  /\ InitAnyState
  /\ [][NextReach]_vars
  /\ WF_vars(FSMCallback)
  /\ WF_vars(TriggerCallback)
  /\ WF_vars(PoseAtGoal)
  /\ WF_vars(MapUpdated)

\* C12: from every non-terminal state (INIT, WAIT_TARGET, NEW_PLAN, REPLAN,
\* EXEC_TRAJ, EMERGENCY_REPLAN) a sequence of ticks and ingress events
\* reaches GOAL_REACHED: with a helpful environment the supervisor
\* eventually is in GOAL_REACHED.
C12_GoalReachable == <>(status = "GOAL_REACHED")

\* the same from the states whose case FSMCallback implements
GoalReachableFromImplemented ==
  status # "EMERGENCY_REPLAN" => <>(status = "GOAL_REACHED")

\* no step of the supervisor leaves EMERGENCY_REPLAN
EmergencyReplanIsTrap ==
  [][status = "EMERGENCY_REPLAN" => status' = "EMERGENCY_REPLAN"]_vars

\* C13 (as the code has it): when the vehicle is within goal tolerance on a
\* REPLAN tick, that tick ends in GOAL_REACHED, and it is the next tick
\* that runs the GOAL_REACHED case and ends in WAIT_TARGET: two ticks.
C13_ReplanGoalWaitTwoTicks ==
  /\ [](ReplanTick /\ last_tick.finished =>
          status = "GOAL_REACHED" /\ Len(waypoints) = last_tick.wp0)
  /\ [][FSMCallback /\ ReplanTick /\ last_tick.finished =>
          /\ last_tick'.from = "GOAL_REACHED"
          /\ status' = "WAIT_TARGET"]_vars

\* nothing was published before the goal was reached, so GOAL_REACHED was
\* entered from REPLAN
C13_Witness ==
  /\ last_tick.from = "GOAL_REACHED"
  /\ status = "WAIT_TARGET"
  /\ traj_idx = 0
  /\ waypoints = <<>>

\* C13 (as stated): when the vehicle is within goal tolerance on a REPLAN
\* tick, the supervisor goes REPLAN, GOAL_REACHED, WAIT_TARGET within that
\* one tick.
C13_ReplanGoalWaitOneTick ==
  (ReplanTick /\ last_tick.finished) => status = "WAIT_TARGET"

(***************************************************************************)
(* The two deconfliction checks of plan() next to the peer ingress.        *)
(* SpecRecheck follows one supervisor tick through the end of plan()       *)
(* (baseline.cpp 200-211) and its publication, while peer trajectories     *)
(* arrive on /broadcast_traj.  The event loop is single-threaded: a peer   *)
(* trajectory that arrives while the tick runs waits in the subscriber     *)
(* queue, and its callback registers it when the loop is idle again.       *)
(***************************************************************************)
\* isSafeAfterChk: no peer update was registered since isSafeAfterOpt
isSafeAfterChk == peer_registered = chk_epoch

\* the tick enters plan(); search, corridors and optimization produce traj_
PlanOptimized ==
  /\ plan_pc = "idle"
  /\ cand_published < MaxCandidates
  /\ plan_pc' = "optimized"
  /\ cand_between' = FALSE
  /\ UNCHANGED <<peer_queue, peer_registered, chk_epoch, cand_published>>
  /\ UNCHANGED not_recheck_vars

\* baseline.cpp 203-206: the candidate is checked against the registered
\* peers; without a registered peer there is nothing to collide with
PlanSafeAfterOpt ==
  \E safe \in {TRUE} \cup {b \in {FALSE} : peer_registered > 0} :
    /\ plan_pc = "optimized"
    /\ chk_epoch' = peer_registered
    /\ plan_pc' = IF safe THEN "checked" ELSE "idle"
    /\ UNCHANGED <<peer_queue, peer_registered, cand_between, cand_published>>
    /\ UNCHANGED not_recheck_vars

\* baseline.cpp 208-211
PlanSafeAfterChk ==
  /\ plan_pc = "checked"
  /\ plan_pc' = IF isSafeAfterChk THEN "safe" ELSE "idle"
  /\ UNCHANGED <<peer_queue, peer_registered, chk_epoch, cand_between,
                 cand_published>>
  /\ UNCHANGED not_recheck_vars

\* plan() returned true and the tick publishes the candidate
PublishCandidate ==
  /\ plan_pc = "safe"
  /\ plan_pc' = "idle"
  /\ cand_published' = cand_published + 1
  /\ UNCHANGED <<peer_queue, peer_registered, chk_epoch, cand_between>>
  /\ UNCHANGED not_recheck_vars

\* a peer's trajectory message reaches the node
PeerArrives ==
  /\ peer_queue + peer_registered < MaxPeerMsgs
  /\ peer_queue' = peer_queue + 1
  /\ cand_between' = (cand_between \/ plan_pc = "checked")
  /\ UNCHANGED <<plan_pc, peer_registered, chk_epoch, cand_published>>
  /\ UNCHANGED not_recheck_vars

\* the event loop, idle, dispatches a queued peer trajectory to the
\* deconfliction, which registers it
PeerCallback ==
  /\ plan_pc = "idle"
  /\ peer_queue > 0
  /\ peer_queue' = peer_queue - 1
  /\ peer_registered' = peer_registered + 1
  /\ UNCHANGED <<plan_pc, chk_epoch, cand_between, cand_published>>
  /\ UNCHANGED not_recheck_vars

NextRecheck ==
  \/ PlanOptimized
  \/ PlanSafeAfterOpt
  \/ PlanSafeAfterChk
  \/ PublishCandidate
  \/ PeerArrives
  \/ PeerCallback

SpecRecheck == Init /\ [][NextRecheck]_vars

Centers == {<<x, 0, 0>> : x \in Coords}

\* velocities a velocity message carries
Velocities == {<<v, 0, w>> : v \in -MaxSpeed .. MaxSpeed, w \in {0}}

Abs(x) == IF x < 0 THEN -x ELSE x

\* the bound without the sign of the component
TruncateSpeed_NoSign(v, v_max) == IF Abs(v) > v_max THEN v_max ELSE v

\* v_max * v / fabs(v) when fabs(v) > v_max
TruncateSpeed(v, v_max) ==
  IF Abs(v) > v_max THEN (IF v < 0 THEN -v_max ELSE v_max) ELSE v

\* multi_planning.cpp 374-383
TruncateVelocity(v) ==
  <<TruncateSpeed(v[1], VMax), TruncateSpeed(v[2], VMax), TruncateSpeed(v[3], VMax)>>

\* Planner::FutureRiskCallback: the tensor and the map center are copied
\* from the message; the latch is left set
FutureRiskCallback ==
  \E r \in 1 .. MaxRisk, c \in Centers :
    /\ future_risk' = r
    /\ map_center' = c
    /\ is_future_risk_locked' = TRUE
    /\ risk_received' = TRUE
    /\ UNCHANGED <<p_odom_pos, p_odom_vel, prev_v, p_odom_acc, prev_t,
                   is_future_risk_updated, p_is_odom_received, cycle>>
    /\ UNCHANGED not_planner_vars

\* Planner::PoseCallback
PlannerPoseCallback ==
  \E pos \in Points :
    /\ p_odom_pos' = pos
    /\ p_is_odom_received' = TRUE
    /\ UNCHANGED <<future_risk, map_center, p_odom_vel, prev_v, p_odom_acc,
                   prev_t, is_future_risk_updated, is_future_risk_locked,
                   risk_received, cycle>>
    /\ UNCHANGED not_planner_vars

\* line 142-144: the dead zone of a differentiated component
DeadZoned(a) == IF Abs(a) < DeadZone THEN 0 ELSE a

\* lines 146-152: a component clipped to max_differentiated_current_a
Clipped(a) ==
  IF a < -MaxDiffA THEN -MaxDiffA ELSE IF a > MaxDiffA THEN MaxDiffA ELSE a

\* lines 137-152: the first difference of the velocity, with the dead zone
\* and the clipping; speeds are in 0.1 m/s and two samples are one second
\* apart, so that (v - prev) / dt in 0.1 m/s^2 is the difference
Differentiate(v, prev) ==
  [k \in 1 .. 3 |-> Clipped(DeadZoned(v[k] - prev[k]))]

\* Planner::VelCallback: is_vel_initialized is a local set to true on every
\* call, so the branch that differentiates the velocity is never taken and
\* _odom_acc is left as it is
VelCallback ==
  \E v \in Velocities :
    LET is_vel_initialized == TRUE
    IN  /\ prev_t < MaxVelSamples
        /\ p_odom_vel' = v
        /\ p_odom_acc' = IF is_vel_initialized
                            THEN p_odom_acc
                            ELSE Differentiate(v, prev_v)
        /\ prev_t' = prev_t + 1
        /\ prev_v' = v
        /\ UNCHANGED <<future_risk, map_center, p_odom_pos,
                       is_future_risk_updated, is_future_risk_locked,
                       p_is_odom_received, risk_received, cycle>>
        /\ UNCHANGED not_planner_vars

\* numbers of nodes of a search result
PathLengths == 0 .. MaxPathLen

\* a path that is taken for good whatever its length above one node
PathIsDegenerate_NoCap(n) == n <= PathMin

\* line 433: astar_rst.size() <= 1 || astar_rst.size() >= 10
PathIsDegenerate(n) == n <= PathMin \/ n >= PathCap

\* lines 284-572, the planning cycle behind the test of line 263, as a
\* function of the members and of the number n of nodes the search
\* returned: on a degenerate path a warning and cleared markers; else
\* findCorridors (line 519), _corridor_pub.publish (line 560) and
\* OptimizationInCorridors (line 565)
PlanningCycleBody(n) ==
  [had_risk |-> risk_received,
   ran |-> TRUE,
   risk |-> future_risk,
   c_start |-> map_center,
   p_start |-> Diff(p_odom_pos, map_center),
   v_start |-> TruncateVelocity(p_odom_vel),
   path_len |-> n,
   corridors |-> ~PathIsDegenerate(n),
   corridor_pub |-> ~PathIsDegenerate(n),
   optimized |-> ~PathIsDegenerate(n)]

\* Planner::TrajTimerCallback: returns at once unless
\* _is_future_risk_updated; else plans from the members as they are now
TrajTimerCallback ==
  \E n \in PathLengths :
    /\ cycle' = IF ~is_future_risk_updated
                  THEN [NoCycle EXCEPT !.had_risk = risk_received]
                  ELSE PlanningCycleBody(n)
    /\ UNCHANGED <<future_risk, map_center, p_odom_pos, p_odom_vel, prev_v,
                   p_odom_acc, prev_t,
                   is_future_risk_updated, is_future_risk_locked,
                   p_is_odom_received, risk_received>>
    /\ UNCHANGED not_planner_vars

NextPlanner ==
  \/ FutureRiskCallback
  \/ PlannerPoseCallback
  \/ VelCallback
  \/ TrajTimerCallback

\* the corridor planning node after construction
InitPlanner ==
  /\ FsmIdle /\ RecheckIdle /\ PlannerInit /\ LatchInit /\ OptInit /\ MapIdle
  /\ ConvIdle

SpecPlanner == InitPlanner /\ [][NextPlanner]_vars

PoseTestLatch ==
  /\ pose_pc = "idle"
  /\ latch_pos < MaxPoses
  /\ pose_pc' = IF ~is_state_locked THEN "lock" ELSE "unlock"
  /\ UNCHANGED <<is_state_locked, latch_pos, latch_att, last_read>>
  /\ UNCHANGED not_latch_vars

\* line 68: is_state_locked_ = true
PoseLock ==
  /\ pose_pc = "lock"
  /\ is_state_locked' = TRUE
  /\ pose_pc' = "pos"
  /\ UNCHANGED <<latch_pos, latch_att, last_read>>
  /\ UNCHANGED not_latch_vars

\* lines 70-72: odom_pos_ = msg->pose.position
PoseWritePos ==
  /\ pose_pc = "pos"
  /\ latch_pos' = latch_pos + 1
  /\ pose_pc' = "att"
  /\ UNCHANGED <<is_state_locked, latch_att, last_read>>
  /\ UNCHANGED not_latch_vars

\* lines 74-77: odom_att_ = msg->pose.orientation
PoseWriteAtt ==
  /\ pose_pc = "att"
  /\ latch_att' = latch_pos
  /\ pose_pc' = "unlock"
  /\ UNCHANGED <<is_state_locked, latch_pos, last_read>>
  /\ UNCHANGED not_latch_vars

\* line 81: is_state_locked_ = false, whoever set it
PoseUnlock ==
  /\ pose_pc = "unlock"
  /\ is_state_locked' = FALSE
  /\ pose_pc' = "idle"
  /\ UNCHANGED <<latch_pos, latch_att, last_read>>
  /\ UNCHANGED not_latch_vars

\* a reader (plan(), baseline.cpp 122 and 176; TrajTimerCallback,
\* multi_planning.cpp 295) takes the odometry state as it is; it does not
\* look at the latch
ReadOdomState ==
  /\ last_read' = [pos |-> latch_pos, att |-> latch_att,
                   locked |-> is_state_locked, done |-> TRUE]
  /\ UNCHANGED <<is_state_locked, pose_pc, latch_pos, latch_att>>
  /\ UNCHANGED not_latch_vars

NextLatch ==
  \/ PoseTestLatch
  \/ PoseLock
  \/ PoseWritePos
  \/ PoseWriteAtt
  \/ PoseUnlock
  \/ ReadOdomState

SpecLatch == Init /\ [][NextLatch]_vars

\* C16: the latch keeps readers from a half-updated (position, attitude)
\* pair: a reader that finds state_locked set does not read, so every read
\* was made with the latch clear and saw position and attitude of one pose;
\* and a pose callback that finds the latch set does not write the state.
C16_LatchProtectsReaders ==
  /\ [](last_read.done => ~last_read.locked /\ last_read.pos = last_read.att)
  /\ [][pose_pc = "idle" /\ is_state_locked =>
          latch_pos' = latch_pos /\ latch_att' = latch_att]_vars

(***************************************************************************)
(* More properties of the supervisor, checked under Spec.                  *)
(***************************************************************************)
\* C17: a trigger received while execution is already triggered changes
\* nothing; any other trigger marks execution triggered and goal received,
\* leaves the FSM state alone, and sets the goal from the trigger's pose
\* (x and y, at the trigger height) when no waypoint is queued, pushing it,
\* and from the front of the waypoint queue when one is queued.
C17_TriggerEffect ==
  [][TriggerCallback =>
       IF is_exec_triggered
         THEN UNCHANGED vars
         ELSE /\ is_exec_triggered' /\ is_goal_received'
              /\ status' = status
              /\ traj_idx' = traj_idx /\ traj_pub' = traj_pub
              /\ IF waypoints = <<>>
                    THEN /\ \E pose \in TriggerPoses :
                              goal' = <<pose[1], pose[2], TriggerGoalZ>>
                         /\ waypoints' = <<goal'>>
                    ELSE /\ goal' = Head(waypoints)
                         /\ waypoints' = waypoints]_vars

\* a trigger after the first goal was reached: the queue was empty, the goal
\* came from the pose and was pushed
C17_Witness ==
  /\ last_tick.from = "GOAL_REACHED"
  /\ last_tick.wp0 = 1
  /\ is_exec_triggered /\ is_goal_received
  /\ waypoints = <<goal>>
  /\ status = "WAIT_TARGET"

\* C18: every publication puts one and the same message on the private and
\* on the broadcast topic; the traj_id of successive publications goes up by
\* exactly one, starting at 1; and only a supervisor tick that publishes
\* changes what the topics hold.
C18_PublicationIds ==
  /\ [](/\ broadcast_traj_pub = traj_pub
        /\ traj_pub.traj_id = traj_idx
        /\ traj_pub = NoMsg <=> traj_idx = 0)
  /\ [][traj_pub' # traj_pub \/ broadcast_traj_pub' # broadcast_traj_pub
            \/ traj_idx' # traj_idx =>
          /\ FSMCallback
          /\ last_tick'.pubs = 1
          /\ traj_pub'.traj_id = traj_pub.traj_id + 1
          /\ broadcast_traj_pub' = traj_pub'
          /\ traj_pub'.cpts = traj_'.p0]_vars
  /\ [][last_tick'.pubs = 1 /\ FSMCallback => traj_pub' # traj_pub]_vars

C18_Witness ==
  /\ last_tick.pubs = 1
  /\ traj_pub.traj_id = 2
  /\ broadcast_traj_pub = traj_pub
  /\ traj_idx = 2

(***************************************************************************)
(* Planner::OptimizationInCorridors (multi_planning.cpp 191-251) as a      *)
(* function of what the optimizer answers: the outcome of optimize(), of   *)
(* each isCorridorSatisfied() and of each reOptimize() are inputs.         *)
(***************************************************************************)
OptOutcomes == {"solved", "unsolved", "crashed"}

\* the loop without its cap
LoopContinues_NoCap(sat, i) == ~sat

\* while (!isCorridorSatisfied(...) && i++ < I), with i the value before
\* the increment
LoopContinues(sat, i) == ~sat /\ i < IMax

\* lines 249-251: the function ends without a return statement; the value
\* the caller reads is undefined
FallOffReturn == {"true", "false"}

\* getTrajectory(&_traj) after every solve, failed or not
StoredTraj_AlwaysTaken(outcome, old, new) == new

\* lines 226 and 240-241: getTrajectory(&_traj) is reached only behind a
\* solve that neither threw nor reported no solution
StoredTraj(outcome, old, new) == IF outcome = "solved" THEN new ELSE old

\* lines 213-226: optimize(), then getTrajectory(&_traj)
OptOptimize ==
  \E outcome \in OptOutcomes :
    /\ opt_pc = "optimize"
    /\ opt_pc' = IF outcome = "solved" THEN "check" ELSE "done"
    /\ opt_ret' = IF outcome = "solved" THEN "none" ELSE "false"
    /\ opt_traj' = StoredTraj(outcome, opt_traj, [call |-> opt_calls, solve |-> 0])
    /\ last_outcome' = outcome
    /\ UNCHANGED <<opt_i, last_sat, reopt_calls, opt_calls>>
    /\ UNCHANGED not_opt_vars

\* lines 229-232: the loop condition; i++ is evaluated only when the check
\* failed
OptLoopTest ==
  \E sat \in BOOLEAN :
    /\ opt_pc = "check"
    /\ last_sat' = YesNo(sat)
    /\ opt_i' = IF ~sat THEN opt_i + 1 ELSE opt_i
    /\ opt_pc' = IF LoopContinues(sat, opt_i) THEN "reopt" ELSE "end"
    /\ UNCHANGED <<reopt_calls, opt_ret, opt_calls, opt_traj, last_outcome>>
    /\ UNCHANGED not_opt_vars

\* lines 233-246: reOptimize(), then getTrajectory(&_traj) or return false
OptReOptimize ==
  \E outcome \in OptOutcomes :
    /\ opt_pc = "reopt"
    /\ reopt_calls' = reopt_calls + 1
    /\ opt_pc' = IF outcome = "solved" THEN "check" ELSE "done"
    /\ last_sat' = IF outcome = "solved" THEN "none" ELSE last_sat
    /\ opt_ret' = IF outcome = "solved" THEN "none" ELSE "false"
    /\ opt_traj' = StoredTraj(outcome, opt_traj,
                              [call |-> opt_calls, solve |-> reopt_calls + 1])
    /\ last_outcome' = outcome
    /\ UNCHANGED <<opt_i, opt_calls>>
    /\ UNCHANGED not_opt_vars

\* lines 247-251: the loop is left and the function ends
OptFallOff ==
  \E r \in FallOffReturn :
    /\ opt_pc = "end"
    /\ opt_pc' = "done"
    /\ opt_ret' = r
    /\ UNCHANGED <<opt_i, last_sat, reopt_calls, opt_calls, opt_traj, last_outcome>>
    /\ UNCHANGED not_opt_vars

\* the next call, made by the next timer tick (lines 565-571: the caller
\* logs a warning on false and the callback ends); _traj is a member and
\* stays, everything else of the call starts anew
OptCall ==
  /\ opt_pc = "done"
  /\ opt_calls < MaxOptCalls
  /\ opt_pc' = "optimize"
  /\ opt_i' = 0
  /\ last_sat' = "none"
  /\ reopt_calls' = 0
  /\ opt_ret' = "none"
  /\ opt_calls' = opt_calls + 1
  /\ last_outcome' = "none"
  /\ UNCHANGED opt_traj
  /\ UNCHANGED not_opt_vars

NextOpt ==
  \/ OptOptimize
  \/ OptLoopTest
  \/ OptReOptimize
  \/ OptFallOff
  \/ OptCall

SpecOpt == Init /\ [][NextOpt]_vars /\ WF_vars(NextOpt)

\* C19: in one OptimizationInCorridors call reOptimize is invoked only
\* after isCorridorSatisfied failed on the current trajectory, and at most
\* IMax = 10 times; the loop terminates (a call that entered the loop
\* comes to its end).
C19_ReoptimizeLoop ==
  /\ [](reopt_calls <= IMax /\ opt_i <= IMax + 1)
  /\ [][opt_pc = "reopt" => last_sat = "no"]_vars
  /\ [][reopt_calls' # reopt_calls /\ opt_pc # "done" =>
          /\ last_sat = "no"
          /\ opt_pc = "reopt"
          /\ reopt_calls' = reopt_calls + 1]_vars
  /\ (opt_pc = "check" ~> opt_pc = "done")

\* the cap is reached: ten re-optimizations, the eleventh check failed
C19_Witness ==
  /\ reopt_calls = IMax
  /\ opt_i = IMax + 1
  /\ last_sat = "no"
  /\ opt_pc = "end"

\* C20: a call whose trajectory still violates the corridor or kinematic
\* check after IMax re-optimizations returns false, and a call returns
\* true only when its last isCorridorSatisfied check passed.
C20_FailureReported ==
  /\ opt_ret = "true" => last_sat = "yes"
  /\ (opt_pc = "done" /\ reopt_calls = IMax /\ last_sat = "no") =>
       opt_ret = "false"

CycleVelocities ==
  {<<a, b, c>> : a \in -MaxSpeed .. MaxSpeed, b \in -MaxSpeed .. MaxSpeed,
                 c \in -MaxSpeed .. MaxSpeed}

\* the nodes after construction and some velocity sample
InitCycle ==
  /\ FsmIdle
  /\ RecheckIdle
  /\ LatchInit
  /\ OptInit
  /\ MapIdle
  /\ ConvIdle
  /\ future_risk = 0
  /\ map_center = <<0, 0, 0>>
  /\ p_odom_pos = <<0, 0, 0>>
  /\ p_odom_vel \in CycleVelocities
  /\ prev_v = p_odom_vel
  /\ p_odom_acc \in Accels
  /\ prev_t = 1
  /\ is_future_risk_updated = FALSE
  /\ is_future_risk_locked = FALSE
  /\ p_is_odom_received = FALSE
  /\ risk_received = FALSE
  /\ cycle = NoCycle

\* one planning cycle
PlanningCycle ==
  \E n \in PathLengths :
    /\ cycle' = PlanningCycleBody(n)
    /\ UNCHANGED <<future_risk, map_center, p_odom_pos, p_odom_vel, prev_v,
                   p_odom_acc, prev_t,
                   is_future_risk_updated, is_future_risk_locked,
                   p_is_odom_received, risk_received>>
    /\ UNCHANGED not_planner_vars

NextCycle == PlanningCycle

SpecCycle == InitCycle /\ [][NextCycle]_vars

\* C22: a search result of at most 1 or of at least 10 nodes is a failed
\* plan: the cycle generates no corridor, publishes no corridor message and
\* does not call the optimizer; corridor generation, corridor publication
\* and optimization happen exactly when the path has 2 to 9 nodes.
C22_DegeneratePath ==
  cycle.ran =>
    /\ (cycle.path_len <= 1 \/ cycle.path_len >= 10) =>
          ~cycle.corridors /\ ~cycle.corridor_pub /\ ~cycle.optimized
    /\ cycle.corridors <=> cycle.path_len \in 2 .. 9
    /\ cycle.corridor_pub <=> cycle.path_len \in 2 .. 9
    /\ cycle.optimized <=> cycle.path_len \in 2 .. 9

\* a path of ten nodes was discarded
C22_Witness ==
  /\ cycle.ran
  /\ cycle.path_len = 10
  /\ ~cycle.corridor_pub
  /\ ~cycle.optimized

C23_TimeoutLikeNoPath ==
  (ReplanTick /\ last_tick.rst = "TIMEOUT") =>
    /\ last_tick.plan = "no"
    /\ last_tick.opt = "skipped"
    /\ last_tick.safe_opt = "skipped"
    /\ last_tick.safe_chk = "skipped"
    /\ Published(0)
    /\ status = "REPLAN"

(***************************************************************************)
(* The acceleration differentiator of the corridor planning node, checked  *)
(* under SpecPlanner.                                                      *)
(***************************************************************************)
\* C25: a velocity sample equal to the one before it leaves the
\* acceleration at 0 on every axis, whatever the acceleration was before.
C25_ConstantVelocityZeroAcc ==
  [][(prev_t' # prev_t /\ prev_t > 0 /\ p_odom_vel' = p_odom_vel) =>
       p_odom_acc' = <<0, 0, 0>>]_vars

\* C26: every velocity sample after the first sets each acceleration
\* component to the first difference of the velocity, 0 inside the dead
\* zone and clipped to the configured maximum, and then stores the sample
\* as the previous one.
C26_DifferentiatesEverySample ==
  [][(prev_t' # prev_t /\ prev_t > 0) =>
       /\ p_odom_acc' = Differentiate(p_odom_vel', prev_v)
       /\ prev_v' = p_odom_vel'
       /\ prev_t' = prev_t + 1]_vars

(***************************************************************************)
(* The risk map, FakeParticleRiskVoxel (fake_particle_risk_voxel.cpp,      *)
(* risk_voxel.h).  Positions are whole multiples of half a voxel (0.05 m), *)
(* risks are in tenths, a query time is a whole number of time units of    *)
(* which time_resolution_ is TimeRes; the speed of an obstacle is in       *)
(* position units per time unit.  Obstacles of type 2 (rings) are not      *)
(* among the inputs.                                                       *)
(***************************************************************************)
\* init(), lines 27-29: MAP_LENGTH_VOXEL_NUM / 2 * resolution_, the division
\* being one of integers
local_update_range_x_ == (MapLengthVoxelNum \div 2) * Res

local_update_range_y_ == (MapWidthVoxelNum \div 2) * Res

local_update_range_z_ == (MapHeightVoxelNum \div 2) * Res

Add(p, q) == <<p[1] + q[1], p[2] + q[2], p[3] + q[3]>>

Scale(p, k) == <<p[1] * k, p[2] * k, p[3] * k>>

\* RiskVoxel::isInRange(const Eigen::Vector3f &)
isInRange(p) ==
  /\ p[1] > -local_update_range_x_ /\ p[1] < local_update_range_x_
  /\ p[2] > -local_update_range_y_ /\ p[2] < local_update_range_y_
  /\ p[3] > -local_update_range_z_ /\ p[3] < local_update_range_z_

\* the conversion of a quotient of floats to int drops the fraction
TruncDiv(a, b) == IF a >= 0 THEN a \div b ELSE -((-a) \div b)

\* RiskVoxel::getVoxelIndex(const Eigen::Vector3f &)
getVoxelIndex(pos) ==
  LET x == TruncDiv(pos[1] + local_update_range_x_, Res)
      y == TruncDiv(pos[2] + local_update_range_y_, Res)
      z == TruncDiv(pos[3] + local_update_range_z_, Res)
  IN  z * MapLengthVoxelNum * MapWidthVoxelNum + y * MapLengthVoxelNum + x

\* RiskVoxel::getVoxelPosition with the map center pose: the corner of the
\* voxel with the smallest coordinates, in the world frame
VoxelPositionAt(index, pose) ==
  LET x == index % MapLengthVoxelNum
      y == (index \div MapLengthVoxelNum) % MapWidthVoxelNum
      z == index \div (MapLengthVoxelNum * MapWidthVoxelNum)
  IN  Add(<<x * Res - local_update_range_x_, y * Res - local_update_range_y_,
            z * Res - local_update_range_z_>>, pose)

getVoxelPosition(index) == VoxelPositionAt(index, pose_)

\* updateMap without the clearing of the tensor
ClearRiskMaps_Keep(m) == m

\* lines 103-108
ClearRiskMaps(m) == [i \in Voxels |-> [j \in Slices |-> 0]]

\* lines 84-101: the three pass-through filters around the map center
PassThrough(cloud, pose) ==
  {pt \in cloud :
     /\ pt[1] >= pose[1] - local_update_range_x_
     /\ pt[1] <= pose[1] + local_update_range_x_
     /\ pt[2] >= pose[2] - local_update_range_y_
     /\ pt[2] <= pose[2] + local_update_range_y_
     /\ pt[3] >= pose[3] - local_update_range_z_
     /\ pt[3] <= pose[3] + local_update_range_z_}

\* the voxels the points of a set mark: those of the points in range
\* (lines 112-115, 156-159 and 249-252)
VoxelsHit(pts, pose) ==
  {getVoxelIndex(Diff(pt, pose)) : pt \in {q \in pts : isInRange(Diff(q, pose))}}

\* lines 110-116
MarkCloud(m, cloud, pose) ==
  LET hit == VoxelsHit(PassThrough(cloud, pose), pose)
  IN  [i \in Voxels |->
        [j \in Slices |-> IF j = 0 /\ i \in hit THEN One ELSE m[i][j]]]

\* lines 132-138: a cylinder (type 3) takes the voxels whose corner is
\* within its radius and the clearance of its axis
CylinderMatches(cyl, pt) ==
  /\ cyl.type = 3
  /\ (pt[1] - cyl.x) * (pt[1] - cyl.x) + (pt[2] - cyl.y) * (pt[2] - cyl.y)
       <= (cyl.w + Clearance) * (cyl.w + Clearance)

\* lines 130-154: the velocity of the first obstacle that matches, else 0
AssignedVel(pt, gt) ==
  LET hits == {k \in 1 .. Len(gt) : CylinderMatches(gt[k], pt)}
  IN  IF hits = {}
        THEN <<0, 0, 0>>
        ELSE LET k == CHOOSE h \in hits : \A g \in hits : h <= g
             IN  <<gt[k].vx, gt[k].vy, 0>>

\* line 156: pt + vel * time_resolution_ * k - pose_
PredictedPoint(o, k, pose, gt) ==
  LET pt == VoxelPositionAt(o, pose)
  IN  Diff(Add(pt, Scale(AssignedVel(pt, gt), TimeRes * k)), pose)

\* lines 117-161: the voxels over the threshold at slice 0 are carried to
\* the later slices
Propagate(m, pose, gt) ==
  LET obs_idx_list == {i \in Voxels : m[i][0] > RiskThreshold}
      hit == [k \in Slices |->
                {getVoxelIndex(PredictedPoint(o, k, pose, gt)) :
                   o \in {q \in obs_idx_list :
                            isInRange(PredictedPoint(q, k, pose, gt))}}]
  IN  [i \in Voxels |->
        [j \in Slices |-> IF j >= 1 /\ i \in hit[j] THEN One ELSE m[i][j]]]

\* lines 168-193 and addObstaclesToRiskMap: peers[j] are the particles the
\* coordinator returns for slice j (none without other agents)
AddPeers(m, peers, pose) ==
  LET hit == [j \in Slices |-> VoxelsHit(peers[j], pose)]
  IN  [i \in Voxels |->
        [j \in Slices |-> IF i \in hit[j] THEN One ELSE m[i][j]]]

\* FakeParticleRiskVoxel::updateMap on the tensor m
updateMap(m, cloud, pose, gt, peers) ==
  AddPeers(Propagate(MarkCloud(ClearRiskMaps(m), cloud, pose), pose, gt),
           peers, pose)

\* points of a cloud along x: in the first voxel, next to the map center,
\* in the last voxel, on the upper end of the map and beyond it
CloudPoints ==
  {<<x, 0, 0>> : x \in {-local_update_range_x_ + 1, -1,
                         local_update_range_x_ - 1, local_update_range_x_,
                         local_update_range_x_ + 1}}

Clouds ==
  {{}} \cup {{p} : p \in CloudPoints}
       \cup {{<<-1, 0, 0>>, <<local_update_range_x_ - 1, 0, 0>>}}

\* obstacle lists: none, a cylinder on the map center moving along x, a
\* marker of a type updateMap does not know
GtLists ==
  {<<>>} \cup {<<[type |-> ty, x |-> 0, y |-> 0, w |-> 0, vx |-> v, vy |-> 0]>> :
                 ty \in {3}, v \in {-1, 1}}
         \cup {<<[type |-> 1, x |-> 0, y |-> 0, w |-> 0, vx |-> 1, vy |-> 0]>>}

\* what the coordinator returns: no peer, or one peer moving along x
PeerInputs ==
  {[j \in Slices |-> {}], [j \in Slices |-> {<<Res * j - 1, 0, 0>>}]}

\* the map center is set from the odometry
MapPoseCallback ==
  \E c \in Centers :
    /\ pose_' = c
    /\ UNCHANGED <<gt_cylinders_, risk_maps_, last_update, last_query>>
    /\ UNCHANGED not_map_vars

\* FakeParticleRiskVoxel::groundTruthStateCallback
groundTruthStateCallback ==
  \E g \in GtLists :
    /\ gt_cylinders_' = g
    /\ UNCHANGED <<pose_, risk_maps_, last_update, last_query>>
    /\ UNCHANGED not_map_vars

\* a cloud arrives: updateMap
CloudCallback ==
  \E cloud \in Clouds, peers \in PeerInputs :
    /\ risk_maps_' = updateMap(risk_maps_, cloud, pose_, gt_cylinders_, peers)
    /\ last_update' =
         [done |-> TRUE, cloud |-> cloud, pose |-> pose_, gt |-> gt_cylinders_,
          peers |-> peers,
          stale |-> \E i \in Voxels, j \in Slices :
                      risk_maps_[i][j] > 0 /\ risk_maps_'[i][j] = 0]
    /\ UNCHANGED <<pose_, gt_cylinders_, last_query>>
    /\ UNCHANGED not_map_vars

InitMap ==
  /\ FsmIdle /\ RecheckIdle /\ PlannerIdle /\ LatchInit /\ OptInit /\ MapInit
  /\ ConvIdle

NextMap ==
  \/ MapPoseCallback
  \/ groundTruthStateCallback
  \/ CloudCallback

SpecMap == InitMap /\ [][NextMap]_vars

\* the voxels the latest cloud marked at slice 0
CloudVoxels ==
  VoxelsHit(PassThrough(last_update.cloud, last_update.pose), last_update.pose)

\* C27: after updateMap, for every voxel the cloud occupied at slice 0, with
\* its assigned velocity u, and every slice k in 1..T-1: the voxel that
\* holds the voxel's position moved by u * k * time_resolution_ is occupied
\* at slice k whenever that position is in range; and a voxel matched by no
\* obstacle has u = 0 and is occupied at slice k itself.
C27_Propagation ==
  last_update.done =>
    \A o \in CloudVoxels, k \in 1 .. PredictionTimes - 1 :
      LET pt  == VoxelPositionAt(o, last_update.pose)
          u   == AssignedVel(pt, last_update.gt)
          prd == Diff(Add(pt, Scale(u, TimeRes * k)), last_update.pose)
      IN  /\ isInRange(prd) => risk_maps_[getVoxelIndex(prd)][k] = One
          /\ (\A n \in 1 .. Len(last_update.gt) :
                ~CylinderMatches(last_update.gt[n], pt)) =>
               (u = <<0, 0, 0>> /\ risk_maps_[o][k] = One)

\* what the latest update's inputs put at slice j: at slice 0 the cloud, at
\* a later slice the cloud's voxels carried there, and the peers' particles
\* of that slice
Expected(j) ==
  LET carried == {getVoxelIndex(PredictedPoint(o, j, last_update.pose, last_update.gt)) :
                    o \in {q \in CloudVoxels :
                             isInRange(PredictedPoint(q, j, last_update.pose,
                                                      last_update.gt))}}
  IN  (IF j = 0 THEN CloudVoxels ELSE carried)
        \cup VoxelsHit(last_update.peers[j], last_update.pose)

\* C28, as the code has it: the tensor after an update is the one the
\* update's cloud, map center, obstacles and peer particles give, whatever
\* it held before; slice 0 is occupied exactly at the voxels hit by an
\* in-range point of the cloud or by an in-range peer particle of slice 0.
C28_RebuiltFromScratch ==
  last_update.done =>
    \A i \in Voxels, j \in Slices :
      /\ risk_maps_[i][j] \in {0, One}
      /\ risk_maps_[i][j] = One <=> i \in Expected(j)

\* an update that removed risk the tensor held before
C28_Witness ==
  /\ last_update.done
  /\ last_update.stale
  /\ last_update.cloud # {}
  /\ \E i \in Voxels : risk_maps_[i][0] = One

\* C28 as stated: slice 0 is occupied exactly at the voxels hit by an
\* in-range point of the current cloud.
C28_Slice0IsCloud ==
  last_update.done =>
    \A i \in Voxels : risk_maps_[i][0] = One <=> i \in CloudVoxels

(***************************************************************************)
(* The occupancy queries of the risk map.  SpecQuery starts with the       *)
(* tensor of some update and asks.                                         *)
(***************************************************************************)
\* the index of the voxel that holds a position of the map frame, each
\* axis on its own
getVoxelRelIndex(pos) ==
  <<(pos[1] + local_update_range_x_) \div Res,
    (pos[2] + local_update_range_y_) \div Res,
    (pos[3] + local_update_range_z_) \div Res>>

\* isInRange(const Eigen::Vector3i &)
isInRange3i(p) ==
  /\ p[1] >= 0 /\ p[1] < MapLengthVoxelNum
  /\ p[2] >= 0 /\ p[2] < MapWidthVoxelNum
  /\ p[3] >= 0 /\ p[3] < MapHeightVoxelNum

\* getVoxelIndex(const Eigen::Vector3i &)
getVoxelIndex3i(p) ==
  p[3] * MapLengthVoxelNum * MapWidthVoxelNum + p[2] * MapLengthVoxelNum + p[1]

\* init(), line 35
inf_step_ == Clearance \div Res

KernelSide == 2 * inf_step_ + 1

\* init(), lines 36-43: the offsets in the order of the three loops
inflate_kernel_ ==
  [n \in 1 .. KernelSide * KernelSide * KernelSide |->
     <<((n - 1) \div (KernelSide * KernelSide)) - inf_step_,
       (((n - 1) \div KernelSide) % KernelSide) - inf_step_,
       ((n - 1) % KernelSide) - inf_step_>>]

\* lines 273-282: the loop over the kernel from its n-th offset on, with
\* the sum so far
RECURSIVE KernelLoop(_, _, _, _)
KernelLoop(n, sum_risk, pos_i, t) ==
  IF n > Len(inflate_kernel_)
    THEN 0
    ELSE LET p == Add(pos_i, inflate_kernel_[n])
         IN  IF ~isInRange3i(p)
               THEN KernelLoop(n + 1, sum_risk, pos_i, t)
               ELSE LET s == sum_risk + risk_maps_[getVoxelIndex3i(p)][t]
                    IN  IF s > RiskThreshold
                          THEN 1
                          ELSE KernelLoop(n + 1, s, pos_i, t)

\* the query that answers "free" out of range
getClearOcccupancy_DefaultFree(pos, t) ==
  LET pos_i == getVoxelRelIndex(Diff(pos, pose_))
  IN  IF ~isInRange3i(pos_i)
        THEN {0}
        ELSE IF t \in Slices THEN {KernelLoop(1, 0, pos_i, t)} ELSE {0, 1}

\* getClearOcccupancy(pos, int t), lines 263-283: the values the call can
\* return.  With t outside 0..PREDICTION_TIMES-1 the reads
\* risk_maps_[idx][t] are outside the row and yield anything.
getClearOcccupancy(pos, t) ==
  LET pos_i == getVoxelRelIndex(Diff(pos, pose_))
  IN  IF ~isInRange3i(pos_i)
        THEN {-1}
        ELSE IF t \in Slices THEN {KernelLoop(1, 0, pos_i, t)} ELSE {0, 1}

\* lines 297-300: ceil and floor of dt / time_resolution_, capped
SliceCeil(dt) ==
  LET tc == (dt + TimeRes - 1) \div TimeRes
  IN  IF tc > PredictionTimes THEN PredictionTimes ELSE tc

SliceFloor(dt) ==
  LET tf == dt \div TimeRes
  IN  IF tf > PredictionTimes THEN PredictionTimes ELSE tf

\* lines 304-309
CombineSlices(ret0, ret1) ==
  IF ret0 = -1 \/ ret1 = -1 THEN -1
  ELSE IF ret0 = 0 /\ ret1 = 0 THEN 0
  ELSE 1

\* getClearOcccupancy(pos, double dt), lines 296-310
getClearOcccupancyDt(pos, dt) ==
  {CombineSlices(ret0, ret1) :
     ret0 \in getClearOcccupancy(pos, SliceCeil(dt)),
     ret1 \in getClearOcccupancy(pos, SliceFloor(dt))}

\* positions asked about: along x through the map and beyond both ends
QueryPoints ==
  {<<x, 0, 0>> : x \in -local_update_range_x_ - 2 .. local_update_range_x_ + 2}

\* times asked about: up to one slice beyond the horizon
QueryTimes == 0 .. (PredictionTimes + 1) * TimeRes

\* a caller asks for a slice of the tensor.  The queries read the map and
\* change nothing, so a behaviour asks one.
QuerySlice ==
  /\ last_query.kind = "none"
  /\ \E pos \in QueryPoints, t \in Slices :
    \E ret \in getClearOcccupancy(pos, t) :
      /\ last_query' = [kind |-> "slice", pos |-> pos, t |-> t, ret |-> ret]
      /\ UNCHANGED <<pose_, gt_cylinders_, risk_maps_, last_update>>
      /\ UNCHANGED not_map_vars

\* a caller asks for a time
QueryTime ==
  /\ last_query.kind = "none"
  /\ \E pos \in QueryPoints, dt \in QueryTimes :
    \E ret \in getClearOcccupancyDt(pos, dt) :
      /\ last_query' = [kind |-> "time", pos |-> pos, t |-> dt, ret |-> ret]
      /\ UNCHANGED <<pose_, gt_cylinders_, risk_maps_, last_update>>
      /\ UNCHANGED not_map_vars

\* the map after one update
InitQuery ==
  /\ FsmIdle /\ RecheckIdle /\ PlannerIdle /\ LatchInit /\ OptInit
  /\ pose_ \in Centers
  /\ gt_cylinders_ \in {g \in GtLists : \A n \in 1 .. Len(g) : g[n].type = 3 /\ g[n].vx = 1}
  /\ \E cloud \in Clouds :
       /\ last_update = [NoUpdate EXCEPT !.done = TRUE, !.cloud = cloud,
                                         !.pose = pose_, !.gt = gt_cylinders_]
       /\ risk_maps_ = updateMap(ZeroMap, cloud, pose_, gt_cylinders_,
                                 NoUpdate.peers)
  /\ last_query = NoQuery
  /\ ConvIdle

NextQuery ==
  \/ QuerySlice
  \/ QueryTime

SpecQuery == InitQuery /\ [][NextQuery]_vars

RECURSIVE SumRisk(_, _)
SumRisk(S, t) ==
  IF S = {}
    THEN 0
    ELSE LET i == CHOOSE v \in S : TRUE
         IN  risk_maps_[i][t] + SumRisk(S \ {i}, t)

\* the in-range voxels of the inflation kernel around the voxel pos_i
KernelVoxels(pos_i) ==
  {getVoxelIndex3i(Add(pos_i, inflate_kernel_[n])) :
     n \in {k \in 1 .. Len(inflate_kernel_) :
              isInRange3i(Add(pos_i, inflate_kernel_[k]))}}

\* what a query for slice t owes: out of range, or whether the risk summed
\* over the kernel exceeds the threshold
SliceOccupancy(pos, t) ==
  LET pos_i == getVoxelRelIndex(Diff(pos, pose_))
  IN  IF ~isInRange3i(pos_i) THEN -1
      ELSE IF SumRisk(KernelVoxels(pos_i), t) > RiskThreshold THEN 1
      ELSE 0

C30_FractionalTime ==
  last_query.kind = "time" =>
    LET last == PredictionTimes - 1
        tf0  == last_query.t \div TimeRes
        tc0  == (last_query.t + TimeRes - 1) \div TimeRes
        tf   == IF tf0 > last THEN last ELSE tf0
        tc   == IF tc0 > last THEN last ELSE tc0
        rf   == SliceOccupancy(last_query.pos, tf)
        rc   == SliceOccupancy(last_query.pos, tc)
    IN  /\ (rf = -1 \/ rc = -1) <=> last_query.ret = -1
        /\ (rf = 0 /\ rc = 0) <=> last_query.ret = 0
        /\ last_query.ret \in {-1, 0, 1}

(***************************************************************************)
(* The conversions between positions and voxel indices as the risk map     *)
(* computes them, in single precision.  RiskVoxel keeps resolution_, the   *)
(* ranges and pose_ as float and Eigen::Vector3f; every sum, difference,    *)
(* product and quotient is rounded to the nearest float, ties to the even  *)
(* mantissa.  A float is kept as the integer number of units of 2^-27 it   *)
(* is worth; the floats met here are whole numbers of units.               *)
(***************************************************************************)
\* the number of binary digits of n >= 0
Bits(n) == CHOOSE b \in 0 .. 30 : n < 2^b /\ (b = 0 \/ n >= 2^(b - 1))

\* the nearest float to a number of units
RoundF(n) ==
  LET a    == IF n < 0 THEN -n ELSE n
      step == IF Bits(a) > MantissaBits THEN 2^(Bits(a) - MantissaBits) ELSE 1
      q    == a \div step
      r    == a % step
      up   == 2 * r > step \/ (2 * r = step /\ q % 2 = 1)
      m    == (IF up THEN q + 1 ELSE q) * step
  IN  IF n < 0 THEN -m ELSE m

\* float + float, float - float, int * float
FAdd(a, b) == RoundF(a + b)
FSub(a, b) == RoundF(a - b)
FMulInt(i, a) == RoundF(i * a)

\* int x = a / r for floats a and r > 0: the quotient is rounded to a float
\* and the conversion drops the fraction, towards zero.  The quotient
\* rounds to the next whole number when it is within half a unit in the
\* last place of it.
FDivToInt(a, r) ==
  LET m   == IF a < 0 THEN -a ELSE a
      k   == m \div r
      rem == m % r
      n   == IF r - rem <= r \div 2^(MantissaBits + 1 - Bits(k))
               THEN k + 1 ELSE k
  IN  IF a < 0 THEN -n ELSE n

\* init(), lines 27-29: MAP_*_VOXEL_NUM / 2 * resolution_
range32_x == FMulInt(MapLengthVoxelNum \div 2, Resolution32)
range32_y == FMulInt(MapWidthVoxelNum \div 2, Resolution32)
range32_z == FMulInt(MapHeightVoxelNum \div 2, Resolution32)

\* RiskVoxel::isInRange(const Eigen::Vector3f &) on floats
isInRange32(p) ==
  /\ p[1] > -range32_x /\ p[1] < range32_x
  /\ p[2] > -range32_y /\ p[2] < range32_y
  /\ p[3] > -range32_z /\ p[3] < range32_z

\* RiskVoxel::getVoxelIndex(const Eigen::Vector3f &) on floats
getVoxelIndex32(pos) ==
  LET x == FDivToInt(FAdd(pos[1], range32_x), Resolution32)
      y == FDivToInt(FAdd(pos[2], range32_y), Resolution32)
      z == FDivToInt(FAdd(pos[3], range32_z), Resolution32)
  IN  z * MapLengthVoxelNum * MapWidthVoxelNum + y * MapLengthVoxelNum + x

\* x * resolution_ - local_update_range_: two roundings, or one where the
\* build contracts the product and the difference into a fused operation
Corner32(x, range, fused) ==
  IF fused THEN RoundF(x * Resolution32 - range)
           ELSE FSub(FMulInt(x, Resolution32), range)

\* RiskVoxel::getVoxelPosition on floats, with the map center pose
getVoxelPosition32(index, pose, fused) ==
  LET x == index % MapLengthVoxelNum
      y == (index \div MapLengthVoxelNum) % MapWidthVoxelNum
      z == index \div (MapLengthVoxelNum * MapWidthVoxelNum)
  IN  <<FAdd(Corner32(x, range32_x, fused), pose[1]),
        FAdd(Corner32(y, range32_y, fused), pose[2]),
        FAdd(Corner32(z, range32_z, fused), pose[3])>>

\* a position of the world frame in the frame of the map
ToMapFrame32(p, pose) ==
  <<FSub(p[1], pose[1]), FSub(p[2], pose[2]), FSub(p[3], pose[3])>>

\* positions of the map frame: multiples of 1/32 m along x, two values of y
Positions32 ==
  {<<n * 2^22, y, 0>> : n \in -MaxSample .. MaxSample, y \in {0, 2^22}}

\* map centers: 0, 0.5 m, 1 m, 2 m and -1 m along x
Poses32 == {<<c * 2^26, 0, 0>> : c \in {0, 1, 2, 4, -2}}

\* an index is taken for an in-range position and turned back into a
\* position.  The conversions read the members and change nothing, so a
\* behaviour asks for one.
VoxelRoundTrip ==
  \E x \in Positions32, pose \in Poses32, fused \in BOOLEAN :
    /\ last_conv.kind = "none"
    /\ isInRange32(x)
    /\ LET index == getVoxelIndex32(x)
           pos   == getVoxelPosition32(index, pose, fused)
       IN  last_conv' = [kind |-> "trip", x |-> x, pose |-> pose,
                         fused |-> fused, index |-> index, position |-> pos]
    /\ UNCHANGED not_conv_vars

\* the largest float below the float n > 0
PrevFloat(n) ==
  n - (IF Bits(n - 1) > MantissaBits THEN 2^(Bits(n - 1) - MantissaBits) ELSE 1)

\* positions of the map frame next to the ends of the map: the last float
\* inside the range on an axis, or the middle of the axis
EdgePositions32 ==
  {<<x, y, z>> : x \in {-PrevFloat(range32_x), 0, PrevFloat(range32_x)},
                 y \in {0, PrevFloat(range32_y)},
                 z \in {0, PrevFloat(range32_z)}}

\* updateMap, lines 111-116 (and 155-160, 249-252): a point is marked in
\* the tensor if it is in range, at the index getVoxelIndex gives
MarkPoint ==
  \E pt \in EdgePositions32 \cup Positions32 :
    /\ last_conv.kind = "none"
    /\ isInRange32(pt)
    /\ last_conv' = [kind |-> "mark", pt |-> pt, index |-> getVoxelIndex32(pt)]
    /\ UNCHANGED not_conv_vars

NextVoxel ==
  \/ VoxelRoundTrip
  \/ MarkPoint

\* the nodes after construction
InitVoxel == FsmIdle /\ NotFsmIdle

SpecVoxel == InitVoxel /\ [][NextVoxel]_vars

\* C31: for every in-range x and every map center, the position
\* getVoxelPosition(getVoxelIndex(x)) lies in the voxel of x: taken back to
\* the frame of the map it has the index of x.
C31_RoundTrip ==
  last_conv.kind = "trip" =>
    getVoxelIndex32(ToMapFrame32(last_conv.position, last_conv.pose))
      = last_conv.index

(***************************************************************************)
(* The planner's index of a position, getPointSpatialIndexInMap.           *)
(* Positions are multiples of half a voxel, as in the risk map.            *)
(***************************************************************************)
\* Planner::Planner, lines 60-66
map_z_limit == MapWidthVoxelNum * MapLengthVoxelNum
map_y_limit == MapLengthVoxelNum
map_x_limit == 1
map_size == MapHeightVoxelNum * MapWidthVoxelNum * MapLengthVoxelNum
map_half_length == (MapLengthVoxelNum * Res) \div 2
map_half_width == (MapWidthVoxelNum * Res) \div 2
map_half_height == (MapHeightVoxelNum * Res) \div 2

\* Planner::getPointSpatialIndexInMap, lines 169-181
getPointSpatialIndexInMap(p, c) ==
  LET x   == TruncDiv(p[1] - c[1] + map_half_length, Res)
      y   == TruncDiv(p[2] - c[2] + map_half_width, Res)
      z   == TruncDiv(p[3] - c[3] + map_half_height, Res)
      idx == z * map_z_limit + y * map_y_limit + x * map_x_limit
  IN  IF idx >= 0 /\ idx < map_size THEN idx ELSE -1

\* positions asked about: through the map and two voxels beyond it along x
\* and y
IndexPoints ==
  {<<x, y, 0>> : x \in -map_half_length - 2 * Res .. map_half_length + 2 * Res,
                 y \in -map_half_width - Res .. map_half_width + Res}

\* the planner asks for the index of a position; one question a behaviour
SpatialIndex ==
  \E p \in IndexPoints, c \in Centers :
    /\ last_conv.kind = "none"
    /\ last_conv' = [kind |-> "index", p |-> p, c |-> c,
                     ret |-> getPointSpatialIndexInMap(p, c)]
    /\ UNCHANGED not_conv_vars

NextIndex == SpatialIndex

SpecIndex == InitVoxel /\ [][NextIndex]_vars

\* the voxel that holds the offset d along an axis of n voxels
AxisVoxel(d, half) == (d + half) \div Res

\* C32: getPointSpatialIndexInMap(p, c) returns the row-major index
\* z * Lx * Ly + y * Lx + x of the voxel that holds p for every p inside the
\* extent of the map around c, and -1 for every p outside the extent on any
\* axis.
C32_SpatialIndex ==
  last_conv.kind = "index" =>
    LET d      == Diff(last_conv.p, last_conv.c)
        x      == AxisVoxel(d[1], map_half_length)
        y      == AxisVoxel(d[2], map_half_width)
        z      == AxisVoxel(d[3], map_half_height)
        inside == /\ x >= 0 /\ x < MapLengthVoxelNum
                  /\ y >= 0 /\ y < MapWidthVoxelNum
                  /\ z >= 0 /\ z < MapHeightVoxelNum
    IN  last_conv.ret =
          IF inside
            THEN z * MapLengthVoxelNum * MapWidthVoxelNum
                   + y * MapLengthVoxelNum + x
            ELSE -1

\* the squared length of an offset, in voxels
SquaredLength(o) == o[1] * o[1] + o[2] * o[2] + o[3] * o[3]

\* C33: every offset of the inflation kernel a query walks lies within the
\* clearance sphere: its length in voxels is at most clearance_ /
\* resolution_.
C33_KernelInSphere ==
  last_query.kind = "slice" =>
    \A n \in 1 .. Len(inflate_kernel_) :
      SquaredLength(inflate_kernel_[n]) * Res * Res <= Clearance * Clearance

(***************************************************************************)
(* The risk latch and the timer of the corridor planning node.             *)
(***************************************************************************)
\* C34: the latch _is_future_risk_locked is held only while
\* FutureRiskCallback copies the tensor: after every completed
\* FutureRiskCallback it is released.
C34_LatchReleased == risk_received => ~is_future_risk_locked

\* C35: a timer tick of the planner runs the search exactly when a risk
\* tensor has been received: before the first risk message a tick returns
\* without planning, after one every tick runs a planning cycle.
C35_TickPlansIffRisk ==
  [][TrajTimerCallback => (cycle'.ran <=> risk_received)]_vars

(***************************************************************************)
(* The supervisor: rejected candidates, the waypoint queue, the trigger.   *)
(***************************************************************************)
\* C36: a candidate rejected before commit is discarded: when plan() fails
\* at isSafeAfterOpt or isSafeAfterChk, the trajectory the planner holds
\* (the one getTrajectory returns) is still the one it held before.
C36_RejectedDiscarded ==
  [][FSMCallback /\ (last_tick'.safe_opt = "no" \/ last_tick'.safe_chk = "no")
       => traj_' = traj_]_vars

\* C37: the waypoint queue is never popped or read at its front while
\* empty: whenever the supervisor is in REPLAN, EXEC_TRAJ or GOAL_REACHED
\* the queue holds a waypoint and the goal is its front; the queue never
\* holds more than one waypoint.
C37_QueueFront ==
  /\ status \in {"REPLAN", "EXEC_TRAJ", "GOAL_REACHED"} =>
       /\ Len(waypoints) >= 1
       /\ goal = Head(waypoints)
  /\ Len(waypoints) \in {0, 1}

\* the tick of GOAL_REACHED popped the one waypoint the queue held
C37_Witness ==
  /\ last_tick.from = "GOAL_REACHED"
  /\ last_tick.wp0 = 1
  /\ status = "WAIT_TARGET"
  /\ waypoints = <<>>

\* C38: no trajectory is published before a trigger: goal-received implies
\* execution-triggered, both flags hold whenever the supervisor is in
\* REPLAN or EXEC_TRAJ, and every publication happens in a REPLAN tick with
\* the trigger received.
C38_NoPublishBeforeTrigger ==
  /\ [](is_goal_received => is_exec_triggered)
  /\ [](status \in {"REPLAN", "EXEC_TRAJ"} =>
          is_goal_received /\ is_exec_triggered)
  /\ [][traj_pub' # traj_pub \/ broadcast_traj_pub' # broadcast_traj_pub
          \/ traj_idx' # traj_idx =>
          /\ status = "REPLAN"
          /\ is_exec_triggered
          /\ last_tick'.from = "REPLAN"]_vars
  /\ [][FSMCallback /\ status = "NEW_PLAN" => last_tick'.pubs = 0]_vars

\* a trajectory was published, after the trigger
C38_Witness ==
  /\ last_tick.from = "REPLAN"
  /\ last_tick.pubs = 1
  /\ traj_idx = 1
  /\ is_goal_received /\ is_exec_triggered

\* C39: for every dt >= 0 the two slice indices getClearOcccupancy(pos, dt)
\* passes to the query of a slice are slices of the risk tensor, in
\* 0 .. PREDICTION_TIMES - 1, also when dt is at or beyond the horizon.
C39_SliceIndicesValid ==
  last_query.kind = "time" =>
    /\ SliceCeil(last_query.t) \in Slices
    /\ SliceFloor(last_query.t) \in Slices

\* C40: every write to the risk tensor during updateMap and
\* addObstaclesToRiskMap is guarded by isInRange and uses a voxel index in
\* 0 .. VOXEL_NUM - 1.
C40_WritesInBounds ==
  last_conv.kind = "mark" => last_conv.index \in Voxels

====
